---- MODULE Spec2Model ----
(***************************************************************************)
(* Model of the WhatsApp LLM bot (vibin18/llm-bot).                        *)
(*                                                                         *)
(* Part 1: the trigger router, ChatService.ProcessMessage                  *)
(* (internal/core/services/chat_service.go), its collaborators being the   *)
(* group allow-list, the message repository, the LLM provider, the webhook *)
(* client and the WhatsApp transport.                                      *)
(*                                                                         *)
(* Texts are sequences of one-character strings, so that TrimSpace,        *)
(* HasPrefix and TrimPrefix are computed as the Go library computes them.  *)
(***************************************************************************)
EXTENDS Naturals, Integers, Sequences, FiniteSets, TLC

(***************************************************************************)
(* Bounds                                                                  *)
(***************************************************************************)
\* number of ProcessMessage invocations in one behaviour
MaxMessages == 1

(***************************************************************************)
(* strings (package strings)                                               *)
(***************************************************************************)
IsSpace(c) == c = " "

RECURSIVE TrimLeft(_)
TrimLeft(s) ==
    IF s = <<>> THEN s
    ELSE IF IsSpace(Head(s)) THEN TrimLeft(Tail(s))
    ELSE s

RECURSIVE TrimRight(_)
TrimRight(s) ==
    IF s = <<>> THEN s
    ELSE IF IsSpace(s[Len(s)]) THEN TrimRight(SubSeq(s, 1, Len(s) - 1))
    ELSE s

TrimSpace(s) == TrimRight(TrimLeft(s))

HasPrefix(s, prefix) ==
    /\ Len(s) >= Len(prefix)
    /\ SubSeq(s, 1, Len(prefix)) = prefix

TrimPrefix(s, prefix) ==
    IF HasPrefix(s, prefix) THEN SubSeq(s, Len(prefix) + 1, Len(s)) ELSE s

(***************************************************************************)
(* Input domains                                                           *)
(***************************************************************************)
Groups == {"g1", "g2"}

\* whatsapp.allowed_groups of the loaded configuration
ConfigAllowedGroups == {"g1"}
ConfigGroupList == <<"g1">>

\* message contents as they arrive from the transport
Contents ==
    { <<"w">>,
      <<"@", " ", "w">>,
      <<"@", "@", " ", "w">>,
      <<" ", "@", " ", "w">>,
      <<"@", " ", "h", " ", "w">>,
      <<"@", "h", "h", " ">>,
      <<"h", " ", "w">>,
      <<" ", "h", "h">>,
      <<"@">>,
      <<"@", "@", "h">>,
      <<"@", " ", "w", " ">> }

\* configured trigger-word lists (whatsapp.trigger_words)
TriggerLists ==
    { <<>>,
      << <<"@">> >>,
      << <<"@", "@">>, <<"@">> >>,
      << <<"@">>, <<"@", "@">> >> }

WebhookA == [SubTrigger |-> <<"h">>, URL |-> "urlA", Timeout |-> ""]
WebhookB == [SubTrigger |-> <<"h", "h">>, URL |-> "urlB", Timeout |-> "60s"]

\* configured webhook rule lists (webhooks)
WebhookLists ==
    { <<>>, <<WebhookA>>, <<WebhookA, WebhookB>>, <<WebhookB, WebhookA>> }

\* texts an LLM provider may return
LLMTexts == { <<"o", "k">> }

\* the fixed user-facing error text
ErrorMsg ==
    << "Sorry, I cannot process this request right now due to a technical error. Please try again later." >>

\* number of context messages ProcessMessage asks the repository for
ContextLimit == 10

\* webhook timeout in seconds when none is configured
DefaultWebhookTimeout == 30

NoWebhook == [SubTrigger |-> <<>>, URL |-> "", Timeout |-> "nil"]
NoResponse == [ContentType |-> "", Content |-> <<>>, TextContent |-> <<>>]

(***************************************************************************)
(* State                                                                   *)
(***************************************************************************)
VARIABLES
    allowedGroups,   \* GroupService.allowedGroups
    triggerWords,    \* ChatService.triggerWords
    webhookConfigs,  \* ChatService.webhookConfigs
    messages,        \* MemoryRepository.messages: groupJID -> messages
    pc,              \* position of the handler inside ProcessMessage
    received,        \* the message as delivered by the transport
    message,         \* *domain.Message being processed (Content is mutated)
    trig,            \* local snapshot triggerWords of ProcessMessage
    webhook,         \* local webhook of ProcessMessage
    context,         \* local context of ProcessMessage
    response,        \* local response (LLM or webhook)
    ret,             \* value returned by ProcessMessage
    calls,           \* calls made to the collaborators by this invocation
    handled,         \* number of invocations started
    currentWith      \* history: the webhook lists that were current at an
                     \* instant at which triggerWords was the list this
                     \* invocation read, up to its sub-trigger lookup

\* the configuration store behind GroupService, and the history of the
\* calls made to GroupService
VARIABLES
    configGroups,    \* ConfigStore: the persisted whatsapp.allowed_groups
    expectedGroups,  \* history: the set the calls made so far describe
    groupCalls       \* history: "none" when no call has been made, "ok"
                     \* when every call made so far has returned nil

groupVars == << configGroups, expectedGroups, groupCalls >>

\* the presence subscription manager, SubscriptionManager
VARIABLES
    subscriptions,     \* SubscriptionManager.subscriptions: jid -> info
    subscriptionQueue, \* SubscriptionManager.subscriptionQueue (channel)
    batch,             \* local batch of processBatchedSubscriptions
    subscribing        \* subscribeBatch: the jids it has still to go through

presenceVars == << subscriptions, subscriptionQueue, batch, subscribing >>

\* the file configuration store, FileConfigStore
VARIABLES
    storeMu,         \* FileConfigStore.mu: the calls that hold it
    storeCalls,      \* the calls made to the store and their positions
    storeConfig      \* FileConfigStore.config: <<>> when nil

storeVars == << storeMu, storeCalls, storeConfig >>

VARIABLES
    clientAllowed,   \* whatsapp.Client.allowedGroups
    pendingStores,   \* GroupService calls that have released the lock and
                     \* have not yet written their list to the store
    parked           \* the ProcessMessage invocation that is not running: a
                     \* second goroutine started by Client.eventHandler

moreVars == << presenceVars, storeVars, clientAllowed, pendingStores, parked >>

vars == << allowedGroups, triggerWords, webhookConfigs, messages, pc,
           received, message, trig, webhook, context, response, ret,
           calls, handled, currentWith, groupVars, moreVars >>

(***************************************************************************)
(* State of the schedule evaluator, SchedulerService, and of the SQLite    *)
(* schedule store (Part 2)                                                 *)
(***************************************************************************)
VARIABLES
    now,             \* wall clock: seconds of local time since 2026-01-01 00:00
    schedules,       \* table schedules: row i has the id i
    executions,      \* table schedule_executions: a set of rows
    running,         \* SchedulerService.running
    stopClosed,      \* SchedulerService.stopChan has been closed
    crashed,         \* the process has panicked
    startups,        \* run goroutines that have not made their initial check
    ticking,         \* a run goroutine is in its select loop
    nextTick,        \* instant of the next tick of SchedulerService.ticker
    lastCheck,       \* outcome of GetEnabled in the last checkSchedules pass
    firings          \* executeSchedule goroutines started so far

schedVars == << now, schedules, executions, running, stopClosed, crashed,
                startups, ticking, nextTick, lastCheck, firings >>

\* no scheduler has been constructed and the schedule store is empty
SchedulerIdle ==
    /\ now = 0
    /\ schedules = <<>>
    /\ executions = {}
    /\ running = FALSE
    /\ stopClosed = FALSE
    /\ crashed = FALSE
    /\ startups = 0
    /\ ticking = FALSE
    /\ nextTick = 0
    /\ lastCheck = "none"
    /\ firings = <<>>

\* the allow-list after SyncWithConfig at startup
ConfigSynced ==
    /\ configGroups = ConfigGroupList
    /\ expectedGroups = ConfigAllowedGroups
    /\ groupCalls = "ok"

\* no presence manager and no file store in use, the transport constructed
\* with the allowed groups of the configuration, one handler goroutine
MoreIdle ==
    /\ subscriptions = <<>>
    /\ subscriptionQueue = <<>>
    /\ batch = <<>>
    /\ subscribing = <<>>
    /\ storeMu = {}
    /\ storeCalls = <<>>
    /\ storeConfig = <<>>
    /\ clientAllowed = ConfigAllowedGroups
    /\ pendingStores = <<>>
    /\ parked = <<>>

NoMessage ==
    [ID |-> "", GroupJID |-> "", Sender |-> "", Content |-> <<>>,
     Timestamp |-> 0, IsFromBot |-> FALSE, IsReplyToBot |-> FALSE]

Init ==
    /\ allowedGroups = ConfigAllowedGroups
    /\ triggerWords \in TriggerLists
    /\ webhookConfigs \in WebhookLists
    /\ messages = [g \in Groups |-> <<>>]
    /\ pc = "idle"
    /\ received = NoMessage
    /\ message = NoMessage
    /\ trig = <<>>
    /\ webhook = NoWebhook
    /\ context = <<>>
    /\ response = NoResponse
    /\ ret = "none"
    /\ calls = <<>>
    /\ handled = 0
    /\ currentWith = {}
    /\ ConfigSynced
    /\ MoreIdle
    /\ SchedulerIdle

(***************************************************************************)
(* GroupService                                                            *)
(***************************************************************************)
\* bug: the allow-list gate lets every group through
IsAllowedAnyGroup(groupJID) == TRUE

IsAllowed(groupJID) == groupJID \in allowedGroups

(***************************************************************************)
(* ChatService.ProcessMessage                                              *)
(***************************************************************************)
\* bug: any non-empty trigger list counts as a match of its first word
FirstTriggerAlways(words, trimmedContent, i) ==
    IF Len(words) >= i THEN i ELSE 0

\* index of the first trigger word that prefixes the trimmed content, 0 if none
RECURSIVE FirstTrigger(_, _, _)
FirstTrigger(words, trimmedContent, i) ==
    IF i > Len(words) THEN 0
    ELSE IF HasPrefix(trimmedContent, words[i]) THEN i
    ELSE FirstTrigger(words, trimmedContent, i + 1)

\* bug: an empty trigger list is checked too, and so drops every message
NeedsTriggerIgnoringLength(words, m) == ~m.IsReplyToBot

\* bug: replies to the bot go through the trigger-word check as well
NeedsTriggerIgnoringReply(words, m) == Len(words) > 0

\* the trigger-word check applies: a non-empty list and not a reply to the bot
NeedsTrigger(words, m) == Len(words) > 0 /\ ~m.IsReplyToBot

\* message.Content after the matched trigger word has been removed
StripTrigger(content, trigger) == TrimSpace(TrimPrefix(content, trigger))

\* bug: the last matching rule wins instead of the first
RECURSIVE findMatchingWebhookLast(_, _, _)
findMatchingWebhookLast(configs, trimmedContent, i) ==
    IF i > Len(configs) THEN NoWebhook
    ELSE LET later == findMatchingWebhookLast(configs, trimmedContent, i + 1)
         IN IF later # NoWebhook THEN later
            ELSE IF HasPrefix(trimmedContent, configs[i].SubTrigger)
            THEN configs[i]
            ELSE NoWebhook

\* findMatchingWebhook: first rule whose sub-trigger prefixes the content
RECURSIVE findMatchingWebhookFrom(_, _, _)
findMatchingWebhookFrom(configs, trimmedContent, i) ==
    IF i > Len(configs) THEN NoWebhook
    ELSE IF HasPrefix(trimmedContent, configs[i].SubTrigger) THEN configs[i]
    ELSE findMatchingWebhookFrom(configs, trimmedContent, i + 1)

findMatchingWebhook(content) ==
    findMatchingWebhookFrom(webhookConfigs, TrimSpace(content), 1)

\* where the handler goes after a step: its next position and, once it has
\* returned, the value returned
Continue(at) == [pc |-> at, ret |-> "none"]
Returns(value) == [pc |-> "done", ret |-> value]
Goto(next) ==
    /\ pc' = next.pc
    /\ ret' = next.ret

\* the invocation that reads the trigger words will come to the
\* sub-trigger lookup
LooksUp(words, m) ==
    /\ NeedsTrigger(words, m)
    /\ FirstTrigger(words, TrimSpace(m.Content), 1) # 0

\* entry: allow-list gate and snapshot of the trigger words
ProcessMessage ==
    /\ pc \in {"idle", "done"}
    /\ handled < MaxMessages
    /\ \E g \in Groups, c \in Contents, r \in BOOLEAN :
         LET m == [ID |-> <<"msg", handled + 1>>, GroupJID |-> g,
                   Sender |-> "user", Content |-> c,
                   Timestamp |-> handled + 1, IsFromBot |-> FALSE,
                   IsReplyToBot |-> r]
         IN /\ received' = m
            /\ message' = m
            /\ handled' = handled + 1
            /\ calls' = <<>>
            /\ webhook' = NoWebhook
            /\ context' = <<>>
            /\ response' = NoResponse
            /\ IF ~IsAllowed(g)
               THEN /\ Goto(Returns("nil"))
                    /\ trig' = <<>>
                    /\ currentWith' = {}
               ELSE /\ Goto(Continue("trigger"))
                    /\ trig' = triggerWords
                    /\ currentWith' = IF LooksUp(triggerWords, m)
                                      THEN {webhookConfigs} ELSE {}
    /\ UNCHANGED << allowedGroups, triggerWords, webhookConfigs, messages >>
    /\ UNCHANGED << schedVars, groupVars, moreVars >>

\* trigger-word decision
MatchTrigger ==
    /\ pc = "trigger"
    /\ IF NeedsTrigger(trig, message)
       THEN LET i == FirstTrigger(trig, TrimSpace(message.Content), 1)
            IN IF i = 0
               THEN /\ Goto(Returns("nil"))
                    /\ UNCHANGED message
               ELSE /\ message' = [message EXCEPT
                                     !.Content = StripTrigger(@, trig[i])]
                    /\ Goto(Continue("find_webhook"))
       ELSE /\ Goto(Continue("save"))
            /\ UNCHANGED message
    /\ currentWith' = IF pc' = "find_webhook" THEN currentWith ELSE {}
    /\ UNCHANGED << allowedGroups, triggerWords, webhookConfigs, messages,
                    received, trig, webhook, context, response, calls,
                    handled >>
    /\ UNCHANGED << schedVars, groupVars, moreVars >>

\* sub-trigger lookup
FindWebhook ==
    /\ pc = "find_webhook"
    /\ webhook' = findMatchingWebhook(message.Content)
    /\ Goto(Continue(IF webhook' # NoWebhook THEN "wh_save" ELSE "save"))
    /\ currentWith' = {}
    /\ UNCHANGED << allowedGroups, triggerWords, webhookConfigs, messages,
                    received, message, trig, context, response, calls,
                    handled >>
    /\ UNCHANGED << schedVars, groupVars, moreVars >>

Call(op, args, ok) ==
    calls' = Append(calls, [op |-> op, args |-> args, ok |-> ok])

\* MemoryRepository.Save; the repository interface may also report an error
SaveOk(m, ok) == ok /\ m.GroupJID # ""

\* bug: the message replaces the messages of its chat
RepoSaveOverwriting(m, ok) ==
    IF SaveOk(m, ok)
    THEN messages' = [messages EXCEPT ![m.GroupJID] = <<m>>]
    ELSE UNCHANGED messages

RepoSave(m, ok) ==
    IF SaveOk(m, ok)
    THEN messages' = [messages EXCEPT ![m.GroupJID] = Append(@, m)]
    ELSE UNCHANGED messages

\* MemoryRepository.GetByGroupJID: the last limit messages of the group
GetByGroupJID(groupJID, limit) ==
    LET msgs == messages[groupJID]
        start == IF Len(msgs) > limit /\ limit > 0 THEN Len(msgs) - limit ELSE 0
    IN SubSeq(msgs, start + 1, Len(msgs))

\* bug: the saved response is not marked as written by the bot
BotMessageUnflagged(m, content) ==
    [ID |-> <<"bot", m.Timestamp>>, GroupJID |-> m.GroupJID, Sender |-> "bot",
     Content |-> content, Timestamp |-> m.Timestamp, IsFromBot |-> FALSE,
     IsReplyToBot |-> FALSE]

BotMessage(m, content) ==
    [ID |-> <<"bot", m.Timestamp>>, GroupJID |-> m.GroupJID, Sender |-> "bot",
     Content |-> content, Timestamp |-> m.Timestamp, IsFromBot |-> TRUE,
     IsReplyToBot |-> FALSE]

\* bug: the reply does not quote the original message
ReplyArgsUnquoted(m, text) ==
    [groupJID |-> m.GroupJID, text |-> text, replyTo |-> <<>>, quoted |-> ""]

\* arguments of whatsapp.SendReply: a reply quoting the original message
ReplyArgs(m, text) ==
    [groupJID |-> m.GroupJID, text |-> text, replyTo |-> m.ID,
     quoted |-> m.Sender]

\* bug: a failed save of the incoming message is only logged
AfterSaveIncomingBestEffort(ok) == Continue("get_context")

AfterSaveIncoming(ok) ==
    IF ok THEN Continue("get_context") ELSE Returns("failed to save message")

\* LLM path: save the incoming message
SaveIncoming ==
    /\ pc = "save"
    /\ \E ok \in BOOLEAN :
         /\ Call("Save", message, SaveOk(message, ok))
         /\ RepoSave(message, ok)
         /\ Goto(AfterSaveIncoming(SaveOk(message, ok)))
    /\ UNCHANGED << allowedGroups, triggerWords, webhookConfigs, received,
                    message, trig, webhook, context, response, handled >>
    /\ UNCHANGED << currentWith, schedVars, groupVars, moreVars >>

\* bug: a failed context fetch is answered with the error reply
AfterGetContextSendsError(ok) ==
    IF ok THEN Continue("generate") ELSE Continue("send_error")

AfterGetContext(ok) ==
    IF ok THEN Continue("generate") ELSE Returns("failed to get context")

\* LLM path: fetch the conversation context
GetContext ==
    /\ pc = "get_context"
    /\ \E ok \in BOOLEAN :
         /\ Call("GetByGroupJID",
                 [groupJID |-> message.GroupJID, limit |-> ContextLimit], ok)
         /\ context' = IF ok
                       THEN GetByGroupJID(message.GroupJID, ContextLimit)
                       ELSE context
         /\ Goto(AfterGetContext(ok))
    /\ UNCHANGED << allowedGroups, triggerWords, webhookConfigs, messages,
                    received, message, trig, webhook, response, handled >>
    /\ UNCHANGED << currentWith, schedVars, groupVars, moreVars >>

\* err != nil || response.Error != nil
GenerateFailed(outcome) == outcome \in {"err", "response_error"}

AfterGenerate(outcome) ==
    IF GenerateFailed(outcome) THEN Continue("send_error")
    ELSE Continue("send")

\* LLM path: llmProvider.Generate; it fails with an error, or returns a
\* response carrying an error, or returns a text
Generate ==
    /\ pc = "generate"
    /\ \E outcome \in {"ok", "err", "response_error"}, text \in LLMTexts :
         /\ Call("Generate",
                 [Prompt |-> message.Content, Context |-> context],
                 outcome = "ok")
         /\ response' = IF outcome = "ok"
                        THEN [ContentType |-> "text", Content |-> text,
                              TextContent |-> text]
                        ELSE response
         /\ Goto(AfterGenerate(outcome))
    /\ UNCHANGED << allowedGroups, triggerWords, webhookConfigs, messages,
                    received, message, trig, webhook, context, handled >>
    /\ UNCHANGED << currentWith, schedVars, groupVars, moreVars >>

\* LLM path: generation failed, reply with the fixed error text
SendError ==
    /\ pc = "send_error"
    /\ \E ok \in BOOLEAN : Call("SendReply", ReplyArgs(message, ErrorMsg), ok)
    /\ Goto(Returns("failed to generate response"))
    /\ UNCHANGED << allowedGroups, triggerWords, webhookConfigs, messages,
                    received, message, trig, webhook, context, response,
                    handled >>
    /\ UNCHANGED << currentWith, schedVars, groupVars, moreVars >>

\* bug: the bot message is saved although the reply could not be sent
AfterSendResponseIgnoringError(ok) == Continue("save_bot")

AfterSendResponse(ok) ==
    IF ok THEN Continue("save_bot") ELSE Returns("failed to send message")

\* LLM path: reply with the generated text
SendResponse ==
    /\ pc = "send"
    /\ \E ok \in BOOLEAN :
         /\ Call("SendReply", ReplyArgs(message, response.Content), ok)
         /\ Goto(AfterSendResponse(ok))
    /\ UNCHANGED << allowedGroups, triggerWords, webhookConfigs, messages,
                    received, message, trig, webhook, context, response,
                    handled >>
    /\ UNCHANGED << currentWith, schedVars, groupVars, moreVars >>

\* LLM path: save the bot response (a failure is only logged)
SaveBotMessage ==
    /\ pc = "save_bot"
    /\ \E ok \in BOOLEAN :
         LET botMessage == BotMessage(message, response.Content)
         IN /\ Call("Save", botMessage, SaveOk(botMessage, ok))
            /\ RepoSave(botMessage, ok)
    /\ Goto(Returns("nil"))
    /\ UNCHANGED << allowedGroups, triggerWords, webhookConfigs, received,
                    message, trig, webhook, context, response, handled >>
    /\ UNCHANGED << currentWith, schedVars, groupVars, moreVars >>

(***************************************************************************)
(* FormatWebhookResponse (whatsapp formatter), on single-line texts        *)
(* without '_', '~' and backquote characters: for those the strikethrough  *)
(* and code conversions and formatLists leave the text as it is.           *)
(***************************************************************************)
\* length of the leading run of characters other than '*'
RECURSIVE NonStarRun(_)
NonStarRun(s) ==
    IF s = <<>> \/ Head(s) = "*" THEN 0 ELSE 1 + NonStarRun(Tail(s))

\* regexp \*\*([^*]+?)\*\* replaced by *$1*, leftmost matches first
RECURSIVE convertMarkdownBold(_)
convertMarkdownBold(s) ==
    IF Len(s) < 2 THEN s
    ELSE LET rest == SubSeq(s, 3, Len(s))
             n == NonStarRun(rest)
         IN IF /\ s[1] = "*" /\ s[2] = "*"
               /\ n >= 1 /\ Len(rest) >= n + 2
               /\ rest[n + 1] = "*" /\ rest[n + 2] = "*"
            THEN <<"*">> \o SubSeq(rest, 1, n) \o <<"*">>
                 \o convertMarkdownBold(SubSeq(rest, n + 3, Len(rest)))
            ELSE <<Head(s)>> \o convertMarkdownBold(Tail(s))

cleanupWhitespace(text) == TrimSpace(TrimRight(text))

FormatForWhatsApp(text) ==
    IF text = <<>> THEN text
    ELSE cleanupWhitespace(convertMarkdownBold(text))

FormatWebhookResponse(text) == FormatForWhatsApp(text)

(***************************************************************************)
(* ChatService.processWebhookMessage                                       *)
(***************************************************************************)
\* time.ParseDuration on the configured timeouts, in seconds; -1 is an error
ParseDuration(d) ==
    CASE d = "60s" -> 60
      [] d = "2m" -> 120
      [] OTHER -> -1

WebhookTimeout(w) ==
    IF w.Timeout # "" /\ ParseDuration(w.Timeout) # -1
    THEN ParseDuration(w.Timeout)
    ELSE DefaultWebhookTimeout

\* responses a webhook may return
WebhookResponses ==
    { [ContentType |-> "text", Content |-> t, TextContent |-> t] :
        t \in { <<"*", "*", "x", "*", "*">>, <<"x", " ">> } }
    \cup
    { [ContentType |-> ct, Content |-> <<"bytes">>, TextContent |-> <<>>] :
        ct \in {"image/png", "image/jpeg"} }

IsImage(r) == r.ContentType = "image/jpeg" \/ r.ContentType = "image/png"

AfterWebhookSaveIncoming(ok) ==
    IF ok THEN Continue("wh_call") ELSE Returns("failed to save message")

\* webhook path: save the incoming message
WebhookSaveIncoming ==
    /\ pc = "wh_save"
    /\ \E ok \in BOOLEAN :
         /\ Call("Save", message, SaveOk(message, ok))
         /\ RepoSave(message, ok)
         /\ Goto(AfterWebhookSaveIncoming(SaveOk(message, ok)))
    /\ UNCHANGED << allowedGroups, triggerWords, webhookConfigs, received,
                    message, trig, webhook, context, response, handled >>
    /\ UNCHANGED << currentWith, schedVars, groupVars, moreVars >>

AfterWebhookCall(ok) ==
    IF ok THEN Continue("wh_send") ELSE Continue("wh_send_error")

\* webhook path: call the webhook with the sub-trigger removed
WebhookCall ==
    /\ pc = "wh_call"
    /\ LET userMessage ==
               TrimSpace(TrimPrefix(message.Content, webhook.SubTrigger))
           args == [url |-> webhook.URL, payload |-> userMessage,
                    timeout |-> WebhookTimeout(webhook)]
       IN \E ok \in BOOLEAN, r \in WebhookResponses :
             /\ Call("Call", args, ok)
             /\ response' = IF ok THEN r ELSE response
             /\ Goto(AfterWebhookCall(ok))
    /\ UNCHANGED << allowedGroups, triggerWords, webhookConfigs, messages,
                    received, message, trig, webhook, context, handled >>
    /\ UNCHANGED << currentWith, schedVars, groupVars, moreVars >>

\* webhook path: the call failed, reply with the fixed error text
WebhookSendError ==
    /\ pc = "wh_send_error"
    /\ \E ok \in BOOLEAN : Call("SendReply", ReplyArgs(message, ErrorMsg), ok)
    /\ Goto(Returns("failed to call webhook"))
    /\ UNCHANGED << allowedGroups, triggerWords, webhookConfigs, messages,
                    received, message, trig, webhook, context, response,
                    handled >>
    /\ UNCHANGED << currentWith, schedVars, groupVars, moreVars >>

\* bug: the bot message keeps what the webhook returned, unformatted
WebhookResponseContentRaw(r) ==
    IF IsImage(r) THEN r.Content ELSE r.TextContent

\* what is persisted as the bot message of a webhook response
WebhookResponseContent(r) ==
    IF IsImage(r) THEN <<"[Image sent]">>
    ELSE FormatWebhookResponse(r.TextContent)

AfterWebhookSendResponse(ok, image) ==
    IF ok THEN Continue("wh_save_bot")
    ELSE IF image THEN Returns("failed to send image")
    ELSE Returns("failed to send message")

\* webhook path: send the webhook response as an image or as a text reply
WebhookSendResponse ==
    /\ pc = "wh_send"
    /\ \E ok \in BOOLEAN :
         /\ IF IsImage(response)
            THEN Call("SendImage",
                      [groupJID |-> message.GroupJID,
                       data |-> response.Content,
                       mime |-> response.ContentType, caption |-> <<>>,
                       replyTo |-> message.ID, quoted |-> message.Sender],
                      ok)
            ELSE Call("SendReply",
                      ReplyArgs(message,
                                FormatWebhookResponse(response.TextContent)),
                      ok)
         /\ Goto(AfterWebhookSendResponse(ok, IsImage(response)))
    /\ UNCHANGED << allowedGroups, triggerWords, webhookConfigs, messages,
                    received, message, trig, webhook, context, response,
                    handled >>
    /\ UNCHANGED << currentWith, schedVars, groupVars, moreVars >>

\* webhook path: save the bot response (a failure is only logged)
WebhookSaveBotMessage ==
    /\ pc = "wh_save_bot"
    /\ \E ok \in BOOLEAN :
         LET botMessage == BotMessage(message, WebhookResponseContent(response))
         IN /\ Call("Save", botMessage, SaveOk(botMessage, ok))
            /\ RepoSave(botMessage, ok)
    /\ Goto(Returns("nil"))
    /\ UNCHANGED << allowedGroups, triggerWords, webhookConfigs, received,
                    message, trig, webhook, context, response, handled >>
    /\ UNCHANGED << currentWith, schedVars, groupVars, moreVars >>

(***************************************************************************)
(* Dynamic configuration                                                   *)
(***************************************************************************)
\* the sub-trigger lookup of the invocation in progress is still to come
BeforeLookup == pc \in {"trigger", "find_webhook"} /\ currentWith # {}

UpdateWebhooks ==
    /\ \E webhooks \in WebhookLists :
         /\ webhooks # webhookConfigs
         /\ webhookConfigs' = webhooks
         /\ currentWith' = IF BeforeLookup /\ triggerWords = trig
                           THEN currentWith \cup {webhooks}
                           ELSE currentWith
    /\ UNCHANGED << allowedGroups, triggerWords, messages, pc, received,
                    message, trig, webhook, context, response, ret, calls,
                    handled >>
    /\ UNCHANGED << schedVars, groupVars, moreVars >>

UpdateTriggerWords ==
    /\ \E words \in TriggerLists :
         /\ words # triggerWords
         /\ triggerWords' = words
         /\ currentWith' = IF BeforeLookup /\ words = trig
                           THEN currentWith \cup {webhookConfigs}
                           ELSE currentWith
    /\ UNCHANGED << allowedGroups, webhookConfigs, messages, pc, received,
                    message, trig, webhook, context, response, ret, calls,
                    handled >>
    /\ UNCHANGED << schedVars, groupVars, moreVars >>

Next ==
    \/ ProcessMessage
    \/ MatchTrigger
    \/ FindWebhook
    \/ SaveIncoming
    \/ GetContext
    \/ Generate
    \/ SendError
    \/ SendResponse
    \/ SaveBotMessage
    \/ WebhookSaveIncoming
    \/ WebhookCall
    \/ WebhookSendError
    \/ WebhookSendResponse
    \/ WebhookSaveBotMessage
    \/ UpdateWebhooks
    \/ UpdateTriggerWords

Spec == Init /\ [][Next]_<<vars, schedVars>>

(***************************************************************************)
(* Properties of the trigger router                                        *)
(***************************************************************************)
IsSend(c) == c.op \in {"SendReply", "SendImage", "SendMessage"}
IsInvoke(c) == c.op \in {"Generate", "Call"}
IsInboundSave(c) == c.op = "Save" /\ ~c.args.IsFromBot
IsBotSave(c) == c.op = "Save" /\ c.args.IsFromBot

Sends == SelectSeq(calls, IsSend)
Invokes == SelectSeq(calls, IsInvoke)

\* text of a send: images carry none
SendText(c) == IF c.op = "SendReply" THEN c.args.text ELSE <<>>

\* the message of the current invocation came from an allowed chat
Allowed == pc # "idle" /\ received.GroupJID \in allowedGroups

TriggerMatches(words, content) ==
    \E i \in 1..Len(words) : HasPrefix(TrimSpace(content), words[i])

LLMPath == {"save", "get_context", "generate", "send_error", "send", "save_bot"}
WebhookPath == {"wh_save", "wh_call", "wh_send_error", "wh_send", "wh_save_bot"}

\* C1: a message from a chat outside the allow-list makes ProcessMessage
\* return nil at once, with no call to the transport, the repository, the
\* webhook client or the LLM provider and no change of the stored messages,
\* whatever its content and its reply-to-bot flag.
C1_DisallowedChatNoEffect ==
    [][ (handled' = handled + 1 /\ received'.GroupJID \notin allowedGroups)
          => /\ pc' = "done"
             /\ ret' = "nil"
             /\ calls' = <<>>
             /\ messages' = messages ]_vars

C1_Witness ==
    /\ pc = "done"
    /\ received.GroupJID \notin allowedGroups
    /\ received.IsReplyToBot
    /\ triggerWords # <<>>
    /\ TriggerMatches(triggerWords, received.Content)
    /\ ret = "nil"

\* C2 as stated: in an allowed chat, a message that is not a reply to the bot
\* and matches no configured trigger word causes no call at all, for every
\* trigger-word list, the empty one included.
C2_Original ==
    (Allowed /\ ~received.IsReplyToBot
       /\ ~TriggerMatches(trig, received.Content))
      => /\ Sends = <<>>
         /\ \A i \in 1..Len(calls) : ~(calls[i].op = "Save" /\ calls[i].ok)

\* C2 amended: the same for every non-empty trigger-word list; the message is
\* dropped with a nil result and the message is left as it was received.
C2_NoTriggerNoEffect ==
    (Allowed /\ ~received.IsReplyToBot /\ Len(trig) > 0
       /\ ~TriggerMatches(trig, received.Content))
      => /\ calls = <<>>
         /\ message = received
         /\ pc \in {"trigger", "done"}
         /\ (pc = "done" => ret = "nil")

C2_Witness ==
    /\ pc = "done"
    /\ Allowed
    /\ ~received.IsReplyToBot
    /\ Len(trig) > 0
    /\ ~TriggerMatches(trig, received.Content)
    /\ calls = <<>>

\* every call but the save of the bot message succeeded
AllSucceeded ==
    \A i \in 1..Len(calls) : IsBotSave(calls[i]) \/ calls[i].ok

EmptyTriggerList == Allowed /\ ~received.IsReplyToBot /\ trig = <<>>

ExpectedStripped(words, content) ==
    LET t == TrimSpace(content)
        i == CHOOSE k \in 1..Len(words) :
               /\ HasPrefix(t, words[k])
               /\ \A j \in 1..(k - 1) : ~HasPrefix(t, words[j])
    IN TrimSpace(SubSeq(t, Len(words[i]) + 1, Len(t)))

\* C4: after a trigger-word match the content handed to the later stages is
\* the trimmed content with the first matching trigger word removed from its
\* front and trimmed again, also for content with surrounding whitespace.
C4_TriggerStripped ==
    (Allowed /\ pc # "trigger" /\ ~received.IsReplyToBot /\ Len(trig) > 0
       /\ TriggerMatches(trig, received.Content))
      => message.Content = ExpectedStripped(trig, received.Content)

\* C5: a reply to the bot in an allowed chat is never dropped and never
\* stripped: it goes on to the save of the incoming message with the content
\* as received, whatever the trigger words are, and that content is the
\* prompt handed to the LLM.
C5_ReplyToBotAlwaysTriggered ==
    (Allowed /\ received.IsReplyToBot)
      => /\ message = received
         /\ pc \in {"trigger", "done"} \cup LLMPath
         /\ pc = "done"
              => /\ calls # <<>>
                 /\ calls[1].op = "Save"
                 /\ calls[1].args.Content = received.Content
         /\ \A i \in 1..Len(calls) :
              calls[i].op = "Generate"
                => calls[i].args.Prompt = received.Content

C5_Witness ==
    /\ pc = "done"
    /\ Allowed
    /\ received.IsReplyToBot
    /\ Len(trig) > 0
    /\ HasPrefix(received.Content, trig[1])
    /\ \E i \in 1..Len(calls) : calls[i].op = "Generate"

SubTriggerMatches(configs, content) ==
    \E i \in 1..Len(configs) :
       HasPrefix(TrimSpace(content), configs[i].SubTrigger)

\* the first rule, in stored order, whose sub-trigger prefixes the content
FirstRule(configs, content) ==
    configs[CHOOSE k \in 1..Len(configs) :
              /\ HasPrefix(TrimSpace(content), configs[k].SubTrigger)
              /\ \A j \in 1..(k - 1) :
                   ~HasPrefix(TrimSpace(content), configs[j].SubTrigger)]

\* C6 as stated: when a message triggered by a trigger word or by the
\* reply-to-bot flag is routed and a configured sub-trigger prefixes its
\* content, it is routed to the webhook of the first matching rule and not to
\* the LLM.
C6_Original ==
    [][ ( /\ pc \in {"trigger", "find_webhook"}
          /\ pc' \in {"save", "wh_save"}
          /\ received.IsReplyToBot \/ TriggerMatches(trig, received.Content)
          /\ SubTriggerMatches(webhookConfigs, message'.Content) )
          => /\ pc' = "wh_save"
             /\ webhook' = FirstRule(webhookConfigs, message'.Content) ]_vars

\* C6 amended: a message triggered by a trigger-word match whose stripped
\* content is prefixed by a configured sub-trigger is routed to the first
\* matching rule in stored order; on that path the LLM is never invoked and,
\* once the incoming message is saved, the webhook called is that rule's.  A
\* reply to the bot skips the sub-trigger lookup and goes to the LLM path.
C6_SubTriggerRouting ==
    [][ /\ ( /\ pc = "find_webhook" /\ pc' # pc
             /\ SubTriggerMatches(webhookConfigs, message.Content) )
             => /\ pc' = "wh_save"
                /\ webhook' = FirstRule(webhookConfigs, message.Content)
        /\ webhook' # NoWebhook
             => /\ pc' \in WebhookPath \cup {"done"}
                /\ \A i \in 1..Len(calls') :
                     /\ calls'[i].op # "Generate"
                     /\ calls'[i].op = "Call"
                          => calls'[i].args.url = webhook'.URL
        /\ (pc = "wh_call" /\ pc' # pc)
             => calls'[Len(calls')].op = "Call"
        /\ (pc = "trigger" /\ pc' # pc /\ received.IsReplyToBot)
             => pc' = "save" ]_vars

C6_Witness ==
    /\ pc = "done"
    /\ ~received.IsReplyToBot
    /\ webhook = WebhookB
    /\ HasPrefix(message.Content, WebhookA.SubTrigger)
    /\ HasPrefix(message.Content, WebhookB.SubTrigger)
    /\ \E i \in 1..Len(calls) :
         calls[i].op = "Call" /\ calls[i].args.url = WebhookB.URL

\* the stage a call belongs to
Stage(c) ==
    CASE IsInboundSave(c) -> 1
      [] c.op = "GetByGroupJID" -> 2
      [] IsInvoke(c) -> 3
      [] IsSend(c) -> 4
      [] IsBotSave(c) -> 5

\* C7: the calls of one invocation are made in the order persist-inbound,
\* invoke, send, persist-outbound, each stage at most once: the invoke
\* follows a successful save of the incoming message, a send follows the
\* return of the invoke, and the bot message is saved only after a send that
\* succeeded.
C7_SideEffectOrder ==
    /\ \A i, j \in 1..Len(calls) :
         i < j => Stage(calls[i]) < Stage(calls[j])
    /\ \A j \in 1..Len(calls) :
         /\ Stage(calls[j]) = 3
              => \E i \in 1..(j - 1) : Stage(calls[i]) = 1 /\ calls[i].ok
         /\ Stage(calls[j]) = 4
              => \E i \in 1..(j - 1) : Stage(calls[i]) = 3
         /\ Stage(calls[j]) = 5
              => \E i \in 1..(j - 1) : Stage(calls[i]) = 4 /\ calls[i].ok

C7_Witness ==
    /\ pc = "done"
    /\ Len(calls) = 5
    /\ calls[3].op = "Generate"
    /\ calls[4].op = "SendReply"
    /\ IsBotSave(calls[5])
    /\ \E g \in Groups : Len(messages[g]) >= 2

InboundSaveFailed ==
    /\ calls # <<>>
    /\ IsInboundSave(calls[1])
    /\ ~calls[1].ok

InvokeFailed ==
    \E i \in 1..Len(calls) : IsInvoke(calls[i]) /\ ~calls[i].ok

\* C9: when the webhook call or the LLM generation fails, exactly one reply
\* is sent, with the fixed error text and quoting the id and the sender of
\* the original message; no bot message is saved and ProcessMessage returns
\* an error.
C9_InvokeFailureErrorReply ==
    (pc = "done" /\ InvokeFailed)
      => /\ Len(Sends) = 1
         /\ Sends[1].op = "SendReply"
         /\ Sends[1].args = [groupJID |-> received.GroupJID,
                             text |-> ErrorMsg,
                             replyTo |-> received.ID,
                             quoted |-> received.Sender]
         /\ \A i \in 1..Len(calls) : ~IsBotSave(calls[i])
         /\ \A g \in Groups : \A i \in 1..Len(messages[g]) :
              messages[g][i].ID # <<"bot", received.Timestamp>>
         /\ ret \in {"failed to generate response", "failed to call webhook"}

C9_Witness ==
    /\ pc = "done"
    /\ InvokeFailed
    /\ Len(Sends) = 1
    /\ SendText(Sends[1]) = ErrorMsg
    /\ ret = "failed to call webhook"

\* C10 as stated: every failure after the trigger decision ends with exactly
\* one reply carrying the fixed error text.
C10_Original ==
    (pc = "done" /\ ret # "nil")
      => /\ Len(Sends) = 1
         /\ SendText(Sends[1]) = ErrorMsg

\* C10 amended: the fixed error text is replied exactly once when, and only
\* when, the webhook call or the LLM generation failed.  A failed save of the
\* incoming message or a failed context fetch sends nothing, and a failed
\* send of the generated reply is followed by no other send.
C10_ErrorReplyOnlyOnInvokeFailure ==
    /\ \A i \in 1..Len(Sends) : SendText(Sends[i]) = ErrorMsg => InvokeFailed
    /\ (pc = "done" /\ ret # "nil")
         => /\ Len(Sends) <= 1
            /\ InvokeFailed
                 <=> ret \in {"failed to generate response",
                              "failed to call webhook"}
            /\ InvokeFailed
                 => Len(Sends) = 1 /\ SendText(Sends[1]) = ErrorMsg
            /\ ret \in {"failed to save message", "failed to get context"}
                 => Sends = <<>>
            /\ ret \in {"failed to send message", "failed to send image"}
                 => /\ Len(Sends) = 1
                    /\ ~Sends[1].ok
                    /\ SendText(Sends[1]) # ErrorMsg

C10_Witness ==
    /\ pc = "done"
    /\ ret = "failed to get context"
    /\ Len(calls) = 2
    /\ Sends = <<>>

(***************************************************************************)
(* Properties of the success paths                                         *)
(***************************************************************************)
BotSaves == SelectSeq(calls, IsBotSave)

\* the stored messages carrying the id of this invocation's bot message
StoredBotMessages ==
    { i \in 1..Len(messages[received.GroupJID]) :
        messages[received.GroupJID][i].ID = <<"bot", received.Timestamp>> }

\* the LLM was invoked and its text was sent, both with success
GenerateAndSendSucceeded ==
    /\ pc = "done"
    /\ \E i \in 1..Len(calls) : calls[i].op = "Generate" /\ calls[i].ok
    /\ \E i \in 1..Len(calls) : IsSend(calls[i]) /\ calls[i].ok

\* the reply and the bot message the LLM path owes to the received message
ExpectedLLMReply ==
    [groupJID |-> received.GroupJID, text |-> response.Content,
     replyTo |-> received.ID, quoted |-> received.Sender]

\* C11 as stated: on the LLM path, when generation and sending both succeed,
\* exactly one reply is sent, quoting the original message and carrying the
\* LLM's text, and exactly one bot message with that text is persisted for
\* the same chat.
C11_Original ==
    GenerateAndSendSucceeded
      => /\ Len(Sends) = 1
         /\ Sends[1].args = ExpectedLLMReply
         /\ Cardinality(StoredBotMessages) = 1

\* C11 amended: on the LLM path, when generation and sending both succeed,
\* exactly one reply is sent, quoting the id and the sender of the original
\* message and carrying the LLM's text; the save of one bot message (sender
\* "bot", authored-by-bot flag set, that text, the same chat) is attempted
\* exactly once, the message is stored when and only when that save succeeds,
\* and ProcessMessage returns nil either way.
C11_LLMSuccessReplyAndBotSave ==
    GenerateAndSendSucceeded
      => /\ Len(Sends) = 1
         /\ Sends[1].op = "SendReply"
         /\ Sends[1].args = ExpectedLLMReply
         /\ response.Content \in LLMTexts
         /\ Len(BotSaves) = 1
         /\ BotSaves[1].args.Sender = "bot"
         /\ BotSaves[1].args.IsFromBot
         /\ BotSaves[1].args.Content = response.Content
         /\ BotSaves[1].args.GroupJID = received.GroupJID
         /\ Cardinality(StoredBotMessages) = (IF BotSaves[1].ok THEN 1 ELSE 0)
         /\ \A i \in StoredBotMessages :
              messages[received.GroupJID][i] = BotSaves[1].args
         /\ ret = "nil"

C11_Witness ==
    /\ GenerateAndSendSucceeded
    /\ received.Content # message.Content
    /\ Len(BotSaves) = 1
    /\ BotSaves[1].ok
    /\ Cardinality(StoredBotMessages) = 1

\* the webhook was called and its response was sent, both with success
WebhookCallAndSendSucceeded ==
    /\ pc \in {"wh_save_bot", "done"}
    /\ \E i \in 1..Len(calls) : calls[i].op = "Call" /\ calls[i].ok
    /\ \E i \in 1..Len(calls) : IsSend(calls[i]) /\ calls[i].ok

\* content of every bot message this invocation saved or stored
BotContentIs(content) ==
    /\ \A i \in 1..Len(BotSaves) : BotSaves[i].args.Content = content
    /\ \A i \in StoredBotMessages :
         messages[received.GroupJID][i].Content = content
    /\ pc = "done" => Len(BotSaves) = 1

\* C12: on the webhook path a successful response with an image content type
\* is sent by one SendImage call replying to the original message with an
\* empty caption, and the bot message saved for it has the content
\* "[Image sent]"; any other successful response is sent by one SendReply
\* call carrying the reformatted text, and the bot message saved for it has
\* exactly the text that was sent.
C12_WebhookSuccessSendAndBotContent ==
    WebhookCallAndSendSucceeded
      => /\ Len(Sends) = 1
         /\ Sends[1].args.groupJID = received.GroupJID
         /\ Sends[1].args.replyTo = received.ID
         /\ Sends[1].args.quoted = received.Sender
         /\ IF response.ContentType \in {"image/png", "image/jpeg"}
            THEN /\ Sends[1].op = "SendImage"
                 /\ Sends[1].args.caption = <<>>
                 /\ Sends[1].args.data = response.Content
                 /\ Sends[1].args.mime = response.ContentType
                 /\ BotContentIs(<<"[Image sent]">>)
            ELSE /\ Sends[1].op = "SendReply"
                 /\ Sends[1].args.text
                      = cleanupWhitespace(convertMarkdownBold(
                                              response.TextContent))
                 /\ Sends[1].args.text # response.TextContent
                 /\ BotContentIs(Sends[1].args.text)

\* an image response was sent and its marker was stored
C12_Witness ==
    /\ pc = "done"
    /\ WebhookCallAndSendSucceeded
    /\ Sends[1].op = "SendImage"
    /\ Sends[1].args.mime = "image/png"
    /\ StoredBotMessages # {}
    /\ \A i \in StoredBotMessages :
         messages[received.GroupJID][i].Content = <<"[Image sent]">>

(***************************************************************************)
(* Part 2: the schedule evaluator, SchedulerService (package services),    *)
(* over the SQLite schedule store, ScheduleRepository (package storage).   *)
(*                                                                         *)
(* An instant is a number of seconds of local time since 2026-01-01 00:00, *)
(* a Thursday; every instant of the model lies in 2026.  A pointer is a    *)
(* sequence: <<>> for nil, <<v>> for a pointer to v.                       *)
(***************************************************************************)
\* time.NewTicker(1 * time.Minute), in seconds
TickInterval == 60

\* now.Sub(*schedule.LastRun) < 1*time.Minute, in seconds
GuardWindow == 60

\* limit passed by the handler GetScheduleExecutions
ExecutionsLimit == 50

\* days of the months of 2026
MonthLengths == <<31, 28, 31, 30, 31, 30, 31, 31, 30, 31, 30, 31>>

RECURSIVE DaysBefore(_)
DaysBefore(month) ==
    IF month = 1 THEN 0 ELSE DaysBefore(month - 1) + MonthLengths[month - 1]

\* time.Date(2026, month, day, hour, min, sec, 0, time.Local)
Date(month, day, hour, min, sec) ==
    (DaysBefore(month) + day - 1) * 86400 + hour * 3600 + min * 60 + sec

\* month and day of the month of the d-th day of the year, d counted from 0
RECURSIVE MonthDayFrom(_, _)
MonthDayFrom(d, m) ==
    IF d < MonthLengths[m] THEN [Month |-> m, Day |-> d + 1]
    ELSE MonthDayFrom(d - MonthLengths[m], m + 1)

\* the local fields of an instant (time.Time)
Hour(t) == (t \div 3600) % 24
Minute(t) == (t \div 60) % 60
Weekday(t) == ((t \div 86400) + 4) % 7
Month(t) == MonthDayFrom(t \div 86400, 1).Month
Day(t) == MonthDayFrom(t \div 86400, 1).Day

\* t.Format("2006-01-02")
FormatDate(t) == <<2026, Month(t), Day(t)>>

\* time.Parse("2006-01-02", s): midnight of the date
ParseDate(s) == Date(s[2], s[3], 0, 0, 0)

\* the wall-clock minute an instant lies in
MinuteOf(t) == t \div 60

\* the instants at which the model looks at the system: Wednesday
\* 2026-11-04 at 09:00:00, 09:00:30 and 09:01:00, the Wednesday after at
\* 09:00:00, and the Thursday after that at 09:00:00 and 09:00:30.  No
\* schedule of the model is due in a minute that lies between two of them.
Instants ==
    << Date(11, 4, 9, 0, 0), Date(11, 4, 9, 0, 30), Date(11, 4, 9, 1, 0),
       Date(11, 11, 9, 0, 0), Date(11, 12, 9, 0, 0), Date(11, 12, 9, 0, 30) >>

\* schedules as the admin API submits them (domain.Schedule decoded from JSON)
WeeklySchedule ==
    [ScheduleType |-> "weekly", DayOfWeek |-> <<3>>, Month |-> <<>>,
     DayOfMonth |-> <<>>, Hour |-> 9, Minute |-> 0, SpecificDate |-> <<>>,
     Enabled |-> TRUE, GroupJID |-> "g1", WebhookURL |-> "urlS",
     LastRun |-> <<>>]

YearlySchedule ==
    [WeeklySchedule EXCEPT !.ScheduleType = "yearly", !.DayOfWeek = <<>>,
                           !.Month = <<11>>, !.DayOfMonth = <<4>>]

\* a one-time schedule whose date carries a time of day, 17:45
OnceSchedule ==
    [WeeklySchedule EXCEPT !.ScheduleType = "once", !.DayOfWeek = <<>>,
                           !.SpecificDate = <<Date(11, 4, 17, 45, 0)>>]

ScheduleInputs == {WeeklySchedule, YearlySchedule, OnceSchedule}

\* the schedules the admin has created before the evaluator is started
ScheduleLists == { <<i>> : i \in ScheduleInputs }

\* bounds of the evaluator model: firings started in one behaviour, instants
\* the clock runs through
MaxFirings == 2
MaxStored == 11
MaxSchedules == 2
MaxInstants == 4

(***************************************************************************)
(* ScheduleRepository                                                      *)
(***************************************************************************)
\* the columns of the table schedules that the model keeps
ScheduleColumns == DOMAIN WeeklySchedule

\* Create: the row inserted for a schedule; specific_date keeps the calendar
\* date only and last_run is not among the inserted columns
CreateRow(schedule) ==
    [f \in ScheduleColumns |->
       CASE f = "SpecificDate" ->
              IF schedule[f] = <<>> THEN <<>>
              ELSE <<FormatDate(schedule[f][1])>>
         [] f = "LastRun" -> <<>>
         [] OTHER -> schedule[f]]

UpdateRowWithLastRun(row, schedule) ==
    [CreateRow(schedule) EXCEPT !.LastRun = schedule.LastRun]

\* Update: every column but last_run is overwritten
UpdateRow(row, schedule) ==
    [CreateRow(schedule) EXCEPT !.LastRun = row.LastRun]

\* scanSchedules: the domain.Schedule read from row id
ScanSchedule(id) ==
    [ schedules[id] EXCEPT
        !.SpecificDate = IF @ = <<>> THEN <<>> ELSE <<ParseDate(@[1])>> ]
      @@ [ID |-> id]

\* the ids of the enabled rows of one schedule type, in row order
EnabledOfType(type) ==
    SelectSeq([i \in 1..Len(schedules) |-> i],
              LAMBDA i : schedules[i].Enabled
                         /\ schedules[i].ScheduleType = type)

\* GetEnabled: WHERE enabled = 1 ORDER BY schedule_type, ...
GetEnabled ==
    LET ids == EnabledOfType("once") \o EnabledOfType("weekly")
                 \o EnabledOfType("yearly")
    IN [k \in 1..Len(ids) |-> ScanSchedule(ids[k])]

UpdateLastRunDropped(id, lastRun, ok) == schedules

\* UpdateLastRun: UPDATE schedules SET last_run = ? WHERE id = ?
UpdateLastRun(id, lastRun, ok) ==
    IF ok /\ id \in 1..Len(schedules)
    THEN [schedules EXCEPT ![id].LastRun = <<lastRun>>]
    ELSE schedules

\* bug: the record of a firing replaces the earlier ones of its schedule
LogExecutionReplacing(execution, ok) ==
    executions' =
      IF ok
      THEN { e \in executions : e.ScheduleID # execution.ScheduleID }
             \cup {execution}
      ELSE executions

\* LogExecution: INSERT INTO schedule_executions
LogExecution(execution, ok) ==
    executions' = IF ok THEN executions \cup {execution} ELSE executions

\* the rows of a set of executions, the latest executed_at first
RECURSIVE LatestFirst(_)
LatestFirst(rows) ==
    IF rows = {} THEN <<>>
    ELSE LET latest == CHOOSE e \in rows :
                         \A other \in rows : other.ExecutedAt <= e.ExecutedAt
         IN <<latest>> \o LatestFirst(rows \ {latest})

\* GetExecutions: WHERE schedule_id = ? ORDER BY executed_at DESC LIMIT ?
GetExecutions(scheduleID, limit) ==
    LET rows == LatestFirst({ e \in executions : e.ScheduleID = scheduleID })
    IN IF limit >= 0 /\ limit < Len(rows) THEN SubSeq(rows, 1, limit) ELSE rows

(***************************************************************************)
(* SchedulerService.checkSchedules                                         *)
(***************************************************************************)
\* bug: the minute is not compared
WeeklyMatchesAnyMinute(schedule, t) ==
    /\ schedule.DayOfWeek # <<>>
    /\ schedule.DayOfWeek[1] = Weekday(t)
    /\ schedule.Hour = Hour(t)

WeeklyMatches(schedule, t) ==
    /\ schedule.DayOfWeek # <<>>
    /\ schedule.DayOfWeek[1] = Weekday(t)
    /\ schedule.Hour = Hour(t)
    /\ schedule.Minute = Minute(t)

\* bug: the month is not compared
YearlyMatchesAnyMonth(schedule, t) ==
    /\ schedule.Month # <<>>
    /\ schedule.DayOfMonth # <<>>
    /\ schedule.DayOfMonth[1] = Day(t)
    /\ schedule.Hour = Hour(t)
    /\ schedule.Minute = Minute(t)

YearlyMatches(schedule, t) ==
    /\ schedule.Month # <<>>
    /\ schedule.DayOfMonth # <<>>
    /\ schedule.Month[1] = Month(t)
    /\ schedule.DayOfMonth[1] = Day(t)
    /\ schedule.Hour = Hour(t)
    /\ schedule.Minute = Minute(t)

\* bug: the date is not compared
OnceMatchesAnyDate(schedule, t) ==
    /\ schedule.SpecificDate # <<>>
    /\ schedule.Hour = Hour(t)
    /\ schedule.Minute = Minute(t)

OnceMatches(schedule, t) ==
    /\ schedule.SpecificDate # <<>>
    /\ FormatDate(t) = FormatDate(schedule.SpecificDate[1])
    /\ schedule.Hour = Hour(t)
    /\ schedule.Minute = Minute(t)

\* the switch on schedule.ScheduleType
shouldExecute(schedule, t) ==
    CASE schedule.ScheduleType = "once" -> OnceMatches(schedule, t)
      [] schedule.ScheduleType = "yearly" -> YearlyMatches(schedule, t)
      [] schedule.ScheduleType = "weekly" -> WeeklyMatches(schedule, t)
      [] OTHER -> FALSE

\* bug: a run exactly one minute ago still blocks
RanWithinLastMinuteInclusive(schedule, t) ==
    schedule.LastRun # <<>> /\ t - schedule.LastRun[1] <= GuardWindow

\* the duplicate-fire guard: the schedule ran less than a minute ago
RanWithinLastMinute(schedule, t) ==
    schedule.LastRun # <<>> /\ t - schedule.LastRun[1] < GuardWindow

\* the goroutines started for a schedule that is fired: executeSchedule and,
\* for a one-time schedule, the goroutine that disables it
NewFiring(schedule, t) ==
    [schedule |-> schedule, at |-> t, stage |-> "update_last_run",
     ExecutedAt |-> <<>>, lastRun |-> "none", call |-> "none",
     send |-> <<>>, logged |-> FALSE,
     retire |-> IF schedule.ScheduleType = "once" THEN "pending" ELSE "none"]

RECURSIVE FiredFromFirstOnly(_, _, _)
FiredFromFirstOnly(list, t, k) ==
    IF k > Len(list) THEN <<>>
    ELSE IF shouldExecute(list[k], t) /\ ~RanWithinLastMinute(list[k], t)
    THEN <<NewFiring(list[k], t)>>
    ELSE FiredFromFirstOnly(list, t, k + 1)

\* the loop over the enabled schedules, from the k-th on
RECURSIVE FiredFrom(_, _, _)
FiredFrom(list, t, k) ==
    IF k > Len(list) THEN <<>>
    ELSE IF shouldExecute(list[k], t) /\ ~RanWithinLastMinute(list[k], t)
    THEN <<NewFiring(list[k], t)>> \o FiredFrom(list, t, k + 1)
    ELSE FiredFrom(list, t, k + 1)

checkSchedulesFiringOnError(ok) ==
    LET fired == FiredFrom(GetEnabled, now, 1)
    IN /\ Len(firings) + Len(fired) <= MaxFirings
       /\ firings' = firings \o fired
       /\ lastCheck' = IF ok THEN "listed" ELSE "failed"

\* one evaluation pass; when GetEnabled fails the pass ends at once
checkSchedules(ok) ==
    LET fired == IF ok THEN FiredFrom(GetEnabled, now, 1) ELSE <<>>
    IN /\ Len(firings) + Len(fired) <= MaxFirings
       /\ firings' = firings \o fired
       /\ lastCheck' = IF ok THEN "listed" ELSE "failed"

(***************************************************************************)
(* SchedulerService: Start, Stop and the run loop                          *)
(***************************************************************************)
SchedInit ==
    /\ allowedGroups = ConfigAllowedGroups
    /\ triggerWords = <<>>
    /\ webhookConfigs = <<>>
    /\ messages = [g \in Groups |-> <<>>]
    /\ pc = "idle"
    /\ received = NoMessage
    /\ message = NoMessage
    /\ trig = <<>>
    /\ webhook = NoWebhook
    /\ context = <<>>
    /\ response = NoResponse
    /\ ret = "none"
    /\ calls = <<>>
    /\ handled = 0
    /\ currentWith = {}
    /\ ConfigSynced
    /\ MoreIdle
    /\ now = Instants[1]
    /\ \E created \in ScheduleLists :
         schedules = [i \in 1..Len(created) |-> CreateRow(created[i])]
    /\ executions = {}
    /\ running = FALSE
    /\ stopClosed = FALSE
    /\ crashed = FALSE
    /\ startups = 0
    /\ ticking = FALSE
    /\ nextTick = 0
    /\ lastCheck = "none"
    /\ firings = <<>>

\* Start: rejected while running, else a new ticker and a new run goroutine
Start ==
    /\ ~crashed
    /\ IF running
       THEN UNCHANGED << running, nextTick, startups >>
       ELSE /\ running' = TRUE
            /\ nextTick' = now + TickInterval
            /\ startups' = startups + 1
    /\ UNCHANGED << now, schedules, executions, stopClosed, crashed, ticking,
                    lastCheck, firings >>
    /\ UNCHANGED vars

\* Stop: nothing when not running; close(stopChan) panics on a channel that
\* was closed by an earlier Stop; the run loop returns on the closed channel
Stop ==
    /\ ~crashed
    /\ IF ~running
       THEN UNCHANGED << running, stopClosed, crashed, ticking >>
       ELSE IF stopClosed
       THEN /\ crashed' = TRUE
            /\ UNCHANGED << running, stopClosed, ticking >>
       ELSE /\ stopClosed' = TRUE
            /\ running' = FALSE
            /\ ticking' = FALSE
            /\ UNCHANGED crashed
    /\ UNCHANGED << now, schedules, executions, startups, nextTick,
                    lastCheck, firings >>
    /\ UNCHANGED vars

\* run: the initial check of a new run goroutine, which then enters the
\* select loop and leaves it at once when stopChan is closed
RunStartup ==
    /\ ~crashed
    /\ startups > 0
    /\ \E ok \in BOOLEAN : checkSchedules(ok)
    /\ startups' = startups - 1
    /\ ticking' = IF stopClosed THEN ticking ELSE TRUE
    /\ UNCHANGED << now, schedules, executions, running, stopClosed, crashed,
                    nextTick >>
    /\ UNCHANGED vars

\* run: a tick of the ticker
RunTick ==
    /\ ~crashed
    /\ ticking
    /\ now >= nextTick
    /\ \E ok \in BOOLEAN : checkSchedules(ok)
    /\ nextTick' = nextTick + TickInterval
    /\ UNCHANGED << now, schedules, executions, running, stopClosed, crashed,
                    startups, ticking >>
    /\ UNCHANGED vars

\* the position of the clock in Instants
ClockIndex == CHOOSE i \in 1..Len(Instants) : Instants[i] = now

\* time passes up to the next instant.  A new run goroutine makes its
\* initial check and a due tick is handled before that; the ticks that fall
\* between the two instants find no schedule due and change nothing.
Advance ==
    /\ ~crashed
    /\ startups = 0
    /\ ~(ticking /\ now >= nextTick)
    /\ ClockIndex < MaxInstants
    /\ ClockIndex < Len(Instants)
    /\ now' = Instants[ClockIndex + 1]
    /\ nextTick' = IF ticking /\ nextTick < now'
                   THEN now' + ((nextTick - now') % TickInterval)
                   ELSE nextTick
    /\ UNCHANGED << schedules, executions, running, stopClosed, crashed,
                    startups, ticking, lastCheck, firings >>
    /\ UNCHANGED vars

(***************************************************************************)
(* SchedulerService.executeSchedule, one goroutine for each firing, and    *)
(* the goroutine that disables a one-time schedule                         *)
(***************************************************************************)
\* responses the webhook of a schedule may return
ScheduledResponses ==
    { r \in WebhookResponses :
        r.ContentType = "image/png" \/ r.TextContent = <<"x", " ">> }

\* the execution record of firing i
Execution(i, success, error, responseContent) ==
    [ID |-> i, ScheduleID |-> firings[i].schedule.ID,
     ExecutedAt |-> firings[i].ExecutedAt[1], Success |-> success,
     Error |-> error, Response |-> responseContent]

\* execution.ExecutedAt = time.Now() and the best-effort UpdateLastRun
ExecuteUpdateLastRun ==
    /\ ~crashed
    /\ \E i \in 1..Len(firings), ok \in BOOLEAN :
         /\ firings[i].stage = "update_last_run"
         /\ schedules' = UpdateLastRun(firings[i].schedule.ID, now, ok)
         /\ firings' = [firings EXCEPT
                          ![i].ExecutedAt = <<now>>,
                          ![i].lastRun = IF ok THEN "stored" ELSE "failed",
                          ![i].stage = "call"]
    /\ UNCHANGED << now, executions, running, stopClosed, crashed, startups,
                    ticking, nextTick, lastCheck >>
    /\ UNCHANGED vars

ScheduledSendAsText(schedule, r) ==
    [op |-> "SendMessage",
     args |-> [groupJID |-> schedule.GroupJID,
               text |-> FormatWebhookResponse(r.TextContent)]]

\* what SendImage or SendMessage is called with for a response
ScheduledSend(schedule, r) ==
    IF IsImage(r)
    THEN [op |-> "SendImage",
          args |-> [groupJID |-> schedule.GroupJID, data |-> r.Content,
                    mime |-> r.ContentType, caption |-> <<>>,
                    replyTo |-> <<>>, quoted |-> ""]]
    ELSE [op |-> "SendMessage",
          args |-> [groupJID |-> schedule.GroupJID,
                    text |-> FormatWebhookResponse(r.TextContent)]]

SendOutcomeAlwaysSuccess(i, r, ok) ==
    Execution(i, TRUE, "", WebhookResponseContent(r))

\* the execution record written after the send of response r
SendOutcome(i, r, ok) ==
    IF ok THEN Execution(i, TRUE, "", WebhookResponseContent(r))
    ELSE IF IsImage(r) THEN Execution(i, FALSE, "failed to send image", <<>>)
    ELSE Execution(i, FALSE, "failed to send message", <<>>)

\* the rest of executeSchedule: webhookClient.Call with an empty message,
\* the send of the response as an image or as a text, and LogExecution of
\* the outcome, whose own failure is at most logged
ExecuteCallAndSend ==
    /\ ~crashed
    /\ \E i \in 1..Len(firings), called \in BOOLEAN, logged \in BOOLEAN :
         /\ firings[i].stage = "call"
         /\ IF called
            THEN \E r \in ScheduledResponses, ok \in BOOLEAN :
                   /\ firings' =
                        [firings EXCEPT
                           ![i].call = "ok",
                           ![i].send =
                              <<ScheduledSend(firings[i].schedule, r)
                                  @@ [ok |-> ok]>>,
                           ![i].logged = logged,
                           ![i].stage = "done"]
                   /\ LogExecution(SendOutcome(i, r, ok), logged)
            ELSE /\ firings' = [firings EXCEPT ![i].call = "failed",
                                               ![i].logged = logged,
                                               ![i].stage = "done"]
                 /\ LogExecution(Execution(i, FALSE, "call failed", <<>>),
                                 logged)
    /\ UNCHANGED << now, schedules, running, stopClosed, crashed, startups,
                    ticking, nextTick, lastCheck >>
    /\ UNCHANGED vars

\* schedule.Enabled = false; repository.Update(ctx, schedule): the row is
\* overwritten with the schedule as the pass read it, last_run excepted
RetireOnce ==
    /\ ~crashed
    /\ \E i \in 1..Len(firings), ok \in BOOLEAN :
         LET id == firings[i].schedule.ID
             disabled == [firings[i].schedule EXCEPT !.Enabled = FALSE]
         IN /\ firings[i].retire = "pending"
            /\ firings' = [firings EXCEPT
                             ![i].retire = IF ok THEN "stored" ELSE "failed",
                             ![i].schedule = disabled]
            /\ schedules' = IF ok /\ id \in 1..Len(schedules)
                            THEN [schedules EXCEPT
                                    ![id] = UpdateRow(@, disabled)]
                            ELSE schedules
    /\ UNCHANGED << now, executions, running, stopClosed, crashed, startups,
                    ticking, nextTick, lastCheck >>
    /\ UNCHANGED vars

SchedNext ==
    \/ Start
    \/ Stop
    \/ RunStartup
    \/ RunTick
    \/ Advance
    \/ ExecuteUpdateLastRun
    \/ ExecuteCallAndSend
    \/ RetireOnce

SpecSched == SchedInit /\ [][SchedNext]_<<vars, schedVars>>

(***************************************************************************)
(* One evaluation pass: the evaluator has just been started, at any of the *)
(* instants below, over a store that holds any one of the schedules below, *)
(* left there by the admin API and by earlier runs of the program.         *)
(***************************************************************************)
\* Wednesday 2026-11-04 at 08:59:30, 09:00:00, 09:00:30, 09:01:00 and
\* 10:00:00, the Thursday after, the Sunday after, the Wednesday after and
\* Friday 2026-12-04 at 09:00:00
CheckInstants ==
    { Date(11, 4, 8, 59, 30), Date(11, 4, 9, 0, 0), Date(11, 4, 9, 0, 30),
      Date(11, 4, 9, 1, 0), Date(11, 4, 10, 0, 0), Date(11, 5, 9, 0, 0),
      Date(11, 8, 9, 0, 0), Date(11, 11, 9, 0, 0), Date(12, 4, 9, 0, 0) }

\* stored schedules: the three of ScheduleInputs, and others that differ
\* from them in one calendar field
CheckInputs ==
    ScheduleInputs
    \cup { [WeeklySchedule EXCEPT !.DayOfWeek = d] : d \in { <<0>>, <<>> } }
    \cup { [WeeklySchedule EXCEPT !.Minute = 1],
           [WeeklySchedule EXCEPT !.Hour = 10],
           [YearlySchedule EXCEPT !.Month = <<12>>],
           [YearlySchedule EXCEPT !.DayOfMonth = <<5>>],
           [YearlySchedule EXCEPT !.Minute = 1],
           [YearlySchedule EXCEPT !.Month = <<>>],
           [OnceSchedule EXCEPT !.SpecificDate = <<Date(11, 5, 0, 0, 0)>>],
           [OnceSchedule EXCEPT !.SpecificDate = <<Date(11, 4, 0, 0, 0)>>],
           [OnceSchedule EXCEPT !.Minute = 1],
           [OnceSchedule EXCEPT !.SpecificDate = <<>>] }

\* seconds since the stored last_run, for the schedules that have one
LastRunAges == {0, 30, 59, 60, 120}

CheckInit ==
    /\ allowedGroups = ConfigAllowedGroups
    /\ triggerWords = <<>>
    /\ webhookConfigs = <<>>
    /\ messages = [g \in Groups |-> <<>>]
    /\ pc = "idle"
    /\ received = NoMessage
    /\ message = NoMessage
    /\ trig = <<>>
    /\ webhook = NoWebhook
    /\ context = <<>>
    /\ response = NoResponse
    /\ ret = "none"
    /\ calls = <<>>
    /\ handled = 0
    /\ currentWith = {}
    /\ ConfigSynced
    /\ MoreIdle
    /\ now \in CheckInstants
    /\ \E input \in CheckInputs, enabled \in BOOLEAN,
          lastRun \in {<<>>} \cup { <<now - age>> : age \in LastRunAges } :
         schedules = << [CreateRow(input) EXCEPT !.Enabled = enabled,
                                                 !.LastRun = lastRun] >>
    /\ executions = {}
    /\ running = TRUE
    /\ stopClosed = FALSE
    /\ crashed = FALSE
    /\ startups = 1
    /\ ticking = FALSE
    /\ nextTick = now + TickInterval
    /\ lastCheck = "none"
    /\ firings = <<>>

CheckNext == RunStartup

SpecCheck == CheckInit /\ [][CheckNext]_<<vars, schedVars>>

(***************************************************************************)
(* Properties of one evaluation pass                                       *)
(***************************************************************************)
\* the pass has been made and it could list the enabled schedules
Checked == startups = 0 /\ lastCheck = "listed"

\* the pass made at the present instant started a firing of schedule id
Fired(id) ==
    \E j \in 1..Len(firings) :
      firings[j].schedule.ID = id /\ firings[j].at = now

\* the stored last_run does not hold the schedule back
GuardOpen(row) == row.LastRun = <<>> \/ now - row.LastRun[1] >= 60

\* the instants of CheckInstants in the minute 09:00 of 2026-11-04
FourthOfNovemberAtNine == { Date(11, 4, 9, 0, 0), Date(11, 4, 9, 0, 30) }

\* C13: an enabled weekly schedule that its last_run does not hold back is
\* fired by a pass if and only if its day of the week (0 = Sunday), hour and
\* minute equal those of the local time of the pass; with day 3, hour 9 and
\* minute 0 that is on Wednesdays in the minute 09:00, not at 09:01 and not
\* at 09:00 of another day of the week.
C13_WeeklyMatch ==
    \A id \in 1..Len(schedules) :
      LET row == schedules[id]
      IN ( /\ Checked /\ row.Enabled /\ GuardOpen(row)
           /\ row.ScheduleType = "weekly" )
           => /\ Fired(id) <=> /\ row.DayOfWeek = <<Weekday(now)>>
                               /\ row.Hour = Hour(now)
                               /\ row.Minute = Minute(now)
              /\ (row.DayOfWeek = <<3>> /\ row.Hour = 9 /\ row.Minute = 0)
                   => (Fired(id) <=>
                         now \in FourthOfNovemberAtNine
                                   \cup {Date(11, 11, 9, 0, 0)})

C13_Witness ==
    /\ Checked
    /\ now = Date(11, 11, 9, 0, 0)
    /\ schedules[1].ScheduleType = "weekly"
    /\ schedules[1].DayOfWeek = <<3>>
    /\ schedules[1].LastRun = <<>>
    /\ Fired(1)

\* C14: an enabled yearly schedule that its last_run does not hold back is
\* fired by a pass if and only if its month (1..12), day of the month, hour
\* and minute equal those of the local time of the pass.
C14_YearlyMatch ==
    \A id \in 1..Len(schedules) :
      LET row == schedules[id]
      IN ( /\ Checked /\ row.Enabled /\ GuardOpen(row)
           /\ row.ScheduleType = "yearly" )
           => /\ Fired(id) <=> /\ row.Month = <<Month(now)>>
                               /\ row.DayOfMonth = <<Day(now)>>
                               /\ row.Hour = Hour(now)
                               /\ row.Minute = Minute(now)
              /\ ( /\ row.Month = <<11>> /\ row.DayOfMonth = <<4>>
                   /\ row.Hour = 9 /\ row.Minute = 0 )
                   => (Fired(id) <=> now \in FourthOfNovemberAtNine)

C14_Witness ==
    /\ Checked
    /\ now = Date(11, 4, 9, 0, 30)
    /\ schedules[1].ScheduleType = "yearly"
    /\ schedules[1].Month = <<11>>
    /\ schedules[1].DayOfMonth = <<4>>
    /\ Fired(1)

\* C15: an enabled one-time schedule that its last_run does not hold back is
\* fired by a pass if and only if its stored date, a calendar date without
\* a time of day, is the local date of the pass and its hour and minute equal
\* the local hour and minute.
C15_OnceMatch ==
    \A id \in 1..Len(schedules) :
      LET row == schedules[id]
      IN ( /\ Checked /\ row.Enabled /\ GuardOpen(row)
           /\ row.ScheduleType = "once" )
           => /\ Fired(id) <=>
                   /\ row.SpecificDate = << <<2026, Month(now), Day(now)>> >>
                   /\ row.Hour = Hour(now)
                   /\ row.Minute = Minute(now)
              /\ ( /\ row.SpecificDate = << <<2026, 11, 4>> >>
                   /\ row.Hour = 9 /\ row.Minute = 0 )
                   => (Fired(id) <=> now \in FourthOfNovemberAtNine)

\* the schedule submitted with the date 2026-11-04T17:45 is fired at 09:00
C15_Witness ==
    /\ Checked
    /\ now = Date(11, 4, 9, 0, 0)
    /\ schedules[1] = [CreateRow(OnceSchedule) EXCEPT !.LastRun = <<now - 120>>]
    /\ OnceSchedule.SpecificDate = <<Date(11, 4, 17, 45, 0)>>
    /\ Fired(1)

\* the calendar rule of a row holds at the present instant
RuleMatches(row) ==
    /\ row.Hour = Hour(now)
    /\ row.Minute = Minute(now)
    /\ \/ row.ScheduleType = "weekly" /\ row.DayOfWeek = <<Weekday(now)>>
       \/ /\ row.ScheduleType = "yearly"
          /\ row.Month = <<Month(now)>>
          /\ row.DayOfMonth = <<Day(now)>>
       \/ /\ row.ScheduleType = "once"
          /\ row.SpecificDate = << <<2026, Month(now), Day(now)>> >>

\* C16: an enabled schedule whose calendar rule matches the instant of a pass
\* is not fired by it when its stored last_run is non-null and less than one
\* minute before that instant, and is fired when last_run is null or one
\* minute old or older.
C16_DuplicateFireGuard ==
    \A id \in 1..Len(schedules) :
      LET row == schedules[id]
      IN (Checked /\ row.Enabled /\ RuleMatches(row))
           => /\ (row.LastRun # <<>> /\ now - row.LastRun[1] < 60)
                   => ~Fired(id)
              /\ (row.LastRun = <<>> \/ now - row.LastRun[1] >= 60)
                   => Fired(id)

\* a schedule that ran 30 seconds ago is skipped
C16_Witness ==
    /\ Checked
    /\ schedules[1].Enabled
    /\ RuleMatches(schedules[1])
    /\ schedules[1].LastRun = <<now - 30>>
    /\ firings = <<>>

(***************************************************************************)
(* Properties of the running evaluator                                     *)
(***************************************************************************)
\* the firings started for schedule id by passes made in wall-clock minute m
FiringsIn(id, m) ==
    { j \in 1..Len(firings) :
        firings[j].schedule.ID = id /\ MinuteOf(firings[j].at) = m }

\* the wall-clock minutes of the model in which a firing was started
FiringMinutes == { MinuteOf(firings[j].at) : j \in 1..Len(firings) }

\* a step that is one evaluation pass: the initial check of a run goroutine
\* or a tick
CheckStep ==
    /\ now' = now
    /\ \/ startups' = startups - 1
       \/ nextTick' = nextTick + TickInterval /\ running' = running

\* C17: for every enabled schedule and every wall-clock minute that matches
\* its calendar rule while the evaluator is running, the firing procedure is
\* started exactly once for that minute, the startup check and the ticks
\* counted: after every pass made in such a minute, one firing of the
\* schedule has been started for it, not none and not two.
C17_ExactlyOneFiringPerMinute ==
    [][ CheckStep
          => \A id \in 1..Len(schedules) :
               (schedules[id].Enabled /\ RuleMatches(schedules[id]))
                 => Cardinality(FiringsIn(id, MinuteOf(now)))' = 1 ]_schedVars

\* C18: when two evaluation passes see the same matching minute for the same
\* schedule, its firing procedure is started at most once, also when the
\* second pass reads the schedule before the last_run written by the first
\* firing has been stored.
C18_AtMostOneFiringPerMinute ==
    \A id \in 1..Len(schedules) : \A m \in FiringMinutes :
      Cardinality(FiringsIn(id, m)) <= 1

\* the firings started for schedule id
FiringsOf(id) == { j \in 1..Len(firings) : firings[j].schedule.ID = id }

\* C19: once a one-time schedule has been fired and the goroutine that
\* retires it has run, its enabled flag in the store is false, and no later
\* pass fires the schedule again.
C19_OnceRetiredAfterFiring ==
    \A j \in 1..Len(firings) :
      LET id == firings[j].schedule.ID
      IN firings[j].schedule.ScheduleType = "once"
           => /\ firings[j].retire # "pending" => ~schedules[id].Enabled
              /\ FiringsOf(id) = {j}

\* the firing attempts of schedule id that have come to their end
Attempts(id) == { j \in FiringsOf(id) : firings[j].stage = "done" }

Min(a, b) == IF a <= b THEN a ELSE b

\* the limits GetExecutions is asked with: small ones and the handler's
Limits == {0, 1, 2, ExecutionsLimit}

\* C20 as stated: there is exactly one execution record for each firing
\* attempt, so after N attempts of a schedule GetExecutions returns
\* min(N, limit) records.
C20_Original ==
    \A id \in 1..Len(schedules) : \A limit \in Limits :
      Len(GetExecutions(id, limit)) = Min(Cardinality(Attempts(id)), limit)

\* what LogExecution was given at the end of attempt j
RecordOf(j) ==
    LET f == firings[j]
        base == [ID |-> j, ScheduleID |-> f.schedule.ID,
                 ExecutedAt |-> f.ExecutedAt[1]]
    IN IF f.call = "failed"
       THEN base @@ [Success |-> FALSE, Error |-> "call failed",
                     Response |-> <<>>]
       ELSE IF ~f.send[1].ok
       THEN base @@ [Success |-> FALSE,
                     Error |-> IF f.send[1].op = "SendImage"
                               THEN "failed to send image"
                               ELSE "failed to send message",
                     Response |-> <<>>]
       ELSE base @@ [Success |-> TRUE, Error |-> "",
                     Response |-> IF f.send[1].op = "SendImage"
                                  THEN <<"[Image sent]">>
                                  ELSE f.send[1].args.text]

\* the attempts of schedule id whose record the store accepted
Recorded(id) == { j \in Attempts(id) : firings[j].logged }

\* C20 amended: each firing attempt that has come to its end, by a failed
\* webhook call, a failed send or a success, has written at most one
\* execution record, and exactly one unless the store refused the insert,
\* which the firing ignores.  Records are only added: the record of every
\* recorded attempt stays in the store as it was written, whatever firings
\* follow.  With R recorded attempts of a schedule GetExecutions returns
\* min(R, limit) of their records, the latest first, and no record it leaves
\* out is later than one it returns.
C20_ExecutionRecordsAppendOnly ==
    \A id \in 1..Len(schedules) :
      LET stored == { e \in executions : e.ScheduleID = id }
      IN /\ stored = { RecordOf(j) : j \in Recorded(id) }
         /\ Cardinality(stored) = Cardinality(Recorded(id))
         /\ \A limit \in Limits :
              LET got == GetExecutions(id, limit)
                  returned == { got[k] : k \in 1..Len(got) }
              IN /\ Len(got) = Min(Cardinality(Recorded(id)), limit)
                 /\ Cardinality(returned) = Len(got)
                 /\ returned \subseteq stored
                 /\ \A k \in 1..(Len(got) - 1) :
                      got[k].ExecutedAt >= got[k + 1].ExecutedAt
                 /\ \A e \in stored \ returned : \A r \in returned :
                      e.ExecutedAt <= r.ExecutedAt

\* two attempts, a failed one and a successful one, both recorded, and the
\* limit 1 cuts the result
C20_Witness ==
    /\ Cardinality(Attempts(1)) = 2
    /\ Cardinality(executions) = 2
    /\ \E e \in executions : e.Success
    /\ \E e \in executions : ~e.Success /\ e.Error = "call failed"
    /\ Len(GetExecutions(1, 1)) = 1
    /\ GetExecutions(1, 1)[1].ExecutedAt = now
    /\ \E e \in executions : e.ExecutedAt < now

(***************************************************************************)
(* Properties of one firing, SchedulerService.executeSchedule              *)
(***************************************************************************)
\* the firings that have come to their end and whose record the store took
Logged == { j \in 1..Len(firings) : firings[j].stage = "done"
                                      /\ firings[j].logged }

\* the execution record of firing j in the store
StoredRecord(j) == CHOOSE e \in executions : e.ID = j

\* C21: the execution record of a firing has success = true if and only if
\* the webhook call and the chat send of the firing both succeeded.  When
\* the webhook call failed the record has success = false and the error
\* text of the call, and the firing has sent nothing to the chat.
C21_SuccessIffCallAndSend ==
    /\ \A e \in executions :
         LET f == firings[e.ID]
         IN /\ e.Success <=> (f.call = "ok" /\ f.send # <<>> /\ f.send[1].ok)
            /\ f.call = "failed"
                 => ~e.Success /\ e.Error = "call failed"
    /\ \A j \in 1..Len(firings) :
         /\ firings[j].call = "failed" => firings[j].send = <<>>
         /\ j \in Logged => \E e \in executions : e.ID = j

\* three records are not needed: one firing whose call failed and one whose
\* call succeeded and whose send failed, both recorded
C21_Witness ==
    /\ \E j \in Logged : firings[j].call = "failed"
    /\ \E j \in Logged : /\ firings[j].call = "ok"
                         /\ ~firings[j].send[1].ok
                         /\ ~StoredRecord(j).Success

\* the firings that got a response with content type image/png, and those
\* that got a text
GotImage == { j \in 1..Len(firings) :
                /\ firings[j].call = "ok"
                /\ firings[j].send[1].op = "SendImage" }
GotText == { j \in 1..Len(firings) :
               /\ firings[j].call = "ok"
               /\ firings[j].send[1].op = "SendMessage" }

\* every response of a scheduled webhook call is sent to the target chat
\* of the schedule, an image/png one by SendImage with the bytes received,
\* without caption and not as a reply, a text by SendMessage
SentToTarget ==
    \A j \in 1..Len(firings) :
      firings[j].call = "ok"
        => LET send == firings[j].send[1]
           IN /\ send.args.groupJID = firings[j].schedule.GroupJID
              /\ send.op = "SendImage"
                   => /\ send.args.mime = "image/png"
                      /\ send.args.data = <<"bytes">>
                      /\ send.args.replyTo = <<>>
              /\ send.op = "SendMessage"
                   => send.args.text = FormatWebhookResponse(<<"x", " ">>)

\* C22 as stated: whenever the scheduled webhook call returns image/png the
\* recorded response is "[Image sent]", and whenever it returns a text the
\* recorded response is the text that was sent.
C22_Original ==
    /\ SentToTarget
    /\ \A j \in Logged \cap GotImage :
         StoredRecord(j).Response = <<"[Image sent]">>
    /\ \A j \in Logged \cap GotText :
         StoredRecord(j).Response = firings[j].send[1].args.text

\* C22 amended: an image/png response is sent by SendImage and a text
\* response by SendMessage, not as a reply, to the target chat of the
\* schedule.  When the send succeeds, the recorded response is the literal
\* "[Image sent]" for an image and the sent text for a text; when the send
\* fails, the record has success = false and an empty response.  The bytes
\* of an image are never recorded.
C22_ScheduledResponseSendAndRecord ==
    /\ SentToTarget
    /\ \A j \in Logged \cap (GotImage \cup GotText) :
         LET send == firings[j].send[1]
             e == StoredRecord(j)
         IN /\ e.Response # <<"bytes">>
            /\ send.ok /\ j \in GotImage => e.Response = <<"[Image sent]">>
            /\ send.ok /\ j \in GotText => e.Response = send.args.text
            /\ ~send.ok => e.Response = <<>> /\ ~e.Success

\* an image that was sent and a text that was sent, both recorded
C22_Witness ==
    /\ \E j \in Logged \cap GotImage :
         /\ firings[j].send[1].ok
         /\ StoredRecord(j).Response = <<"[Image sent]">>
    /\ \E j \in Logged \cap GotText :
         /\ firings[j].send[1].ok
         /\ StoredRecord(j).Response = FormatWebhookResponse(<<"x", " ">>)

(***************************************************************************)
(* The running evaluator over a store of two schedules: the run goroutine  *)
(* has just been started and nobody stops it.                              *)
(***************************************************************************)
\* no message is being handled
HandlerIdle ==
    /\ triggerWords = <<>>
    /\ webhookConfigs = <<>>
    /\ messages = [g \in Groups |-> <<>>]
    /\ pc = "idle"
    /\ received = NoMessage
    /\ message = NoMessage
    /\ trig = <<>>
    /\ webhook = NoWebhook
    /\ context = <<>>
    /\ response = NoResponse
    /\ ret = "none"
    /\ calls = <<>>
    /\ handled = 0
    /\ currentWith = {}

\* the chat side at rest
ChatIdle ==
    /\ allowedGroups = ConfigAllowedGroups
    /\ ConfigSynced
    /\ HandlerIdle

\* stores of two schedules: two yearly ones that are due in the same
\* minute, 09:00, and two that are due at 09:00 and at 09:01
SchedulePairs ==
    { <<YearlySchedule, [YearlySchedule EXCEPT !.WebhookURL = "urlT"]>>,
      <<YearlySchedule, [YearlySchedule EXCEPT !.Minute = 1]>> }

TickInit ==
    /\ ChatIdle
    /\ MoreIdle
    /\ now = Instants[1]
    /\ \E created \in SchedulePairs :
         schedules = [i \in 1..Len(created) |-> CreateRow(created[i])]
    /\ executions = {}
    /\ running = TRUE
    /\ stopClosed = FALSE
    /\ crashed = FALSE
    /\ startups = 1
    /\ ticking = FALSE
    /\ nextTick = now + TickInterval
    /\ lastCheck = "none"
    /\ firings = <<>>

TickNext ==
    \/ RunStartup
    \/ RunTick
    \/ Advance
    \/ ExecuteUpdateLastRun
    \/ ExecuteCallAndSend

SpecTick == TickInit /\ [][TickNext]_<<vars, schedVars>>

\* the firings a pass adds
Added == { j \in 1..Len(firings') : j > Len(firings) }

\* firing j can take its next step, whatever the other firings do
CanStep(j) ==
    ENABLED ( /\ ExecuteUpdateLastRun \/ ExecuteCallAndSend
              /\ firings'[j].stage # firings[j].stage )

LoopsAlive == startups + (IF ticking THEN 1 ELSE 0)

\* C24: over any sequence of Start and Stop calls, Stop returns nil and
\* leaves the evaluator stopped, with no loop alive; a running evaluator
\* has its loop alive; and at most one evaluation loop is alive at any time.
C24_StartStopLifecycle ==
    /\ ~crashed
    /\ LoopsAlive <= 1
    /\ running => LoopsAlive = 1
    /\ ~running => ~ticking

\* C35: an evaluator that was stopped can be started again: once a Stop has
\* halted it, a later Start leaves it running with its loop alive (after the
\* initial check of the new loop) so that every tick is evaluated, and no
\* further Stop panics.
C35_RestartAfterStop ==
    stopClosed =>
        /\ ~crashed
        /\ (running /\ startups = 0) => ticking

(***************************************************************************)
(* Properties of a pass that cannot list the schedules                     *)
(***************************************************************************)
\* the pass of this step starts a firing for every schedule that is due
FiresEveryDue ==
    \A id \in 1..Len(schedules) :
      (/\ schedules[id].Enabled
       /\ RuleMatches(schedules[id])
       /\ GuardOpen(schedules[id]))
        => \E j \in Added : /\ firings'[j].schedule.ID = id
                            /\ firings'[j].at = now

\* C25: a pass in which GetEnabled fails starts no firing and writes
\* nothing to the store, and the evaluator stays running with its loop
\* alive; the pass that follows a failed one, when it can list the
\* schedules, starts a firing for every schedule that is due.
C25_ListingFailureAbortsOnlyThatTick ==
    [][ CheckStep
          => /\ lastCheck' = "failed"
                 => /\ firings' = firings
                    /\ schedules' = schedules
                    /\ executions' = executions
                    /\ running' = running /\ crashed' = crashed
                    /\ ticking => ticking'
             /\ lastCheck = "failed" /\ lastCheck' = "listed"
                 => FiresEveryDue ]_schedVars

\* the tick of 09:01 has just failed to list the schedules: the second
\* schedule is due and is not fired, and the evaluator is running
C25_Witness ==
    /\ lastCheck = "failed"
    /\ Minute(now) = 1
    /\ nextTick = now + TickInterval
    /\ Len(schedules) = 2
    /\ schedules[2].Enabled /\ RuleMatches(schedules[2])
    /\ FiringsOf(2) = {}
    /\ running /\ ticking

(***************************************************************************)
(* Properties of the configuration an invocation decides with              *)
(***************************************************************************)
\* C28: the trigger-word list and the webhook-rule list that one
\* ProcessMessage invocation uses were both current at one single instant
\* of the invocation: when findMatchingWebhook reads the webhook rules,
\* that list has been current at an instant at which the trigger words
\* were the list the invocation read.
C28_ConsistentConfigSnapshot ==
    [][ pc = "find_webhook" /\ pc' # "find_webhook"
          => webhookConfigs \in currentWith ]_vars

(***************************************************************************)
(* The admin API for schedules: ScheduleHandlers.CreateSchedule and        *)
(* UpdateSchedule, through SchedulerService, down to ScheduleRepository.   *)
(* The store holds one weekly schedule that is being fired.                *)
(***************************************************************************)
\* request bodies as json.Decode accepts them: the three of ScheduleInputs,
\* a schedule of an unknown kind, one without the calendar field of its
\* kind, ones with hour 24 and minute 60, one with a calendar field of
\* another kind, and one that carries a last_run
AdminInputs ==
    ScheduleInputs
    \cup { [WeeklySchedule EXCEPT !.ScheduleType = "daily"],
           [WeeklySchedule EXCEPT !.DayOfWeek = <<>>],
           [WeeklySchedule EXCEPT !.Hour = 24],
           [WeeklySchedule EXCEPT !.Minute = 60],
           [YearlySchedule EXCEPT !.DayOfWeek = <<3>>],
           [YearlySchedule EXCEPT !.LastRun = <<Instants[2]>>] }

AdminInit ==
    /\ ChatIdle
    /\ MoreIdle
    /\ now = Instants[1]
    /\ schedules = <<CreateRow(WeeklySchedule)>>
    /\ executions = {}
    /\ running = TRUE
    /\ stopClosed = FALSE
    /\ crashed = FALSE
    /\ startups = 0
    /\ ticking = TRUE
    /\ nextTick = now + TickInterval
    /\ lastCheck = "listed"
    /\ firings = <<NewFiring(ScanSchedule(1), now)>>

\* POST /api/schedules: the decoded body goes to repository.Create as it is
CreateSchedule ==
    /\ Len(schedules) < MaxSchedules
    /\ \E schedule \in AdminInputs, ok \in BOOLEAN :
         schedules' = IF ok THEN Append(schedules, CreateRow(schedule))
                      ELSE schedules
    /\ UNCHANGED << now, executions, running, stopClosed, crashed, startups,
                    ticking, nextTick, lastCheck, firings >>
    /\ UNCHANGED vars

\* PUT /api/schedules/{id}: the decoded body goes to repository.Update as
\* it is; an id that is not in the table updates no row
UpdateSchedule ==
    /\ \E id \in 1..MaxSchedules, schedule \in AdminInputs, ok \in BOOLEAN :
         schedules' = IF ok /\ id \in 1..Len(schedules)
                      THEN [schedules EXCEPT ![id] = UpdateRow(@, schedule)]
                      ELSE schedules
    /\ UNCHANGED << now, executions, running, stopClosed, crashed, startups,
                    ticking, nextTick, lastCheck, firings >>
    /\ UNCHANGED vars

AdminNext ==
    \/ CreateSchedule
    \/ UpdateSchedule
    \/ ExecuteUpdateLastRun

SpecAdmin == AdminInit /\ [][AdminNext]_<<vars, schedVars>>

(***************************************************************************)
(* Properties of the admin API                                             *)
(***************************************************************************)
NoField(row, fields) == \A f \in fields : row[f] = <<>>

\* the row has a known kind, an hour and a minute of the day, and exactly
\* the calendar fields of its kind
WellFormed(row) ==
    /\ row.Hour \in 0..23
    /\ row.Minute \in 0..59
    /\ CASE row.ScheduleType = "weekly" ->
              /\ row.DayOfWeek # <<>>
              /\ NoField(row, {"Month", "DayOfMonth", "SpecificDate"})
         [] row.ScheduleType = "yearly" ->
              /\ row.Month # <<>> /\ row.DayOfMonth # <<>>
              /\ NoField(row, {"DayOfWeek", "SpecificDate"})
         [] row.ScheduleType = "once" ->
              /\ row.SpecificDate # <<>>
              /\ NoField(row, {"DayOfWeek", "Month", "DayOfMonth"})
         [] OTHER -> FALSE

\* C26: a malformed schedule is rejected by CreateSchedule and by
\* UpdateSchedule and is not stored: every stored schedule has a known
\* kind, an hour in 0..23, a minute in 0..59 and exactly the calendar
\* fields of its kind.
C26_StoredSchedulesWellFormed ==
    \A id \in 1..Len(schedules) : WellFormed(schedules[id])

\* the step is the last_run write of a firing of schedule id
FiringWritesLastRun(id) ==
    \E j \in 1..Len(firings) :
      /\ firings[j].schedule.ID = id
      /\ firings[j].stage = "update_last_run"
      /\ firings'[j].stage = "call"

\* C27: the stored last_run of a schedule changes only in the step of a
\* firing of that schedule that writes it; CreateSchedule stores a null
\* last_run and UpdateSchedule keeps the stored one, whatever last_run the
\* request carries.
C27_LastRunOnlyByFiring ==
    [][ \A id \in 1..Len(schedules') :
          IF id \in 1..Len(schedules)
          THEN schedules'[id].LastRun # schedules[id].LastRun
                 => FiringWritesLastRun(id)
          ELSE schedules'[id].LastRun = <<>> ]_schedVars

\* the fired schedule has its last_run and has been updated to a yearly
\* one since, and a second schedule has been created
C27_Witness ==
    /\ Len(schedules) = 2
    /\ schedules[1].LastRun = <<Instants[1]>>
    /\ schedules[1].ScheduleType = "yearly"
    /\ schedules[2].LastRun = <<>>

(***************************************************************************)
(* MemoryRepository under the traffic of many handled messages: the Save   *)
(* calls and the GetByGroupJID call that ProcessMessage makes              *)
(***************************************************************************)
\* the number of messages in the store
Stored == Len(messages["g1"]) + Len(messages["g2"])

MemoryInit ==
    /\ ChatIdle
    /\ MoreIdle
    /\ SchedulerIdle

\* Save of the next message of any chat; a message without a chat is
\* refused
MemorySave ==
    /\ Stored < MaxStored
    /\ \E g \in Groups \cup {""} :
         RepoSave([NoMessage EXCEPT !.ID = <<"msg", Stored + 1>>,
                                    !.GroupJID = g,
                                    !.Timestamp = Stored + 1], TRUE)
    /\ UNCHANGED << allowedGroups, triggerWords, webhookConfigs, pc,
                    received, message, trig, webhook, context, response,
                    ret, calls, handled, currentWith >>
    /\ UNCHANGED << schedVars, groupVars, moreVars >>

\* repository.GetByGroupJID(ctx, message.GroupJID, 10)
MemoryGetContext ==
    /\ \E g \in Groups : context' = GetByGroupJID(g, ContextLimit)
    /\ UNCHANGED << allowedGroups, triggerWords, webhookConfigs, messages,
                    pc, received, message, trig, webhook, response, ret,
                    calls, handled, currentWith >>
    /\ UNCHANGED << schedVars, groupVars, moreVars >>

MemoryNext ==
    \/ MemorySave
    \/ MemoryGetContext

SpecMemory == MemoryInit /\ [][MemoryNext]_<<vars, schedVars>>

\* C29: the store retains at most ContextLimit messages for each chat, and
\* the context read for the LLM provider has at most ContextLimit
\* messages, all of one chat, in the order of their arrival.
C29_BoundedRollingContext ==
    /\ \A g \in Groups : Len(messages[g]) <= ContextLimit
    /\ Len(context) <= ContextLimit
    /\ \A i \in 1..Len(context) : \A j \in i..Len(context) :
         /\ context[i].GroupJID = context[j].GroupJID
         /\ context[i].Timestamp <= context[j].Timestamp

(***************************************************************************)
(* GroupService over its ConfigStore: a new service, called sequentially   *)
(***************************************************************************)
GroupNames == Groups \cup {"g3"}

\* lists of groups, as a configuration file or a caller gives them: in any
\* order and with repetitions
GroupLists ==
    {<<>>} \cup { <<a>> : a \in GroupNames } \cup (GroupNames \X GroupNames)

\* the groups of a list
Range(list) == { list[i] : i \in 1..Len(list) }

getAllowedGroupsLockedDropping(groups) ==
    { SubSeq(s, 2, Len(s)) :
        s \in { t \in [1..Cardinality(groups) -> groups] :
                  \A i, j \in DOMAIN t : i # j => t[i] # t[j] } }

\* getAllowedGroupsLocked: the keys of the map, in the order in which the
\* iteration over the map yields them, which is any order
getAllowedGroupsLocked(groups) ==
    { s \in [1..Cardinality(groups) -> groups] :
        \A i, j \in DOMAIN s : i # j => s[i] # s[j] }

\* what GetAllowedGroups may return
GetAllowedGroups == getAllowedGroupsLocked(allowedGroups)

\* the history of the calls after one more call
Called(ok) ==
    groupCalls' = IF ok /\ groupCalls # "failed" THEN "ok" ELSE "failed"

GroupsInit ==
    /\ allowedGroups = {}
    /\ configGroups \in GroupLists
    /\ expectedGroups = {}
    /\ groupCalls = "none"
    /\ HandlerIdle
    /\ MoreIdle
    /\ SchedulerIdle

\* SyncWithConfig: the map is replaced by the groups of the store, unless
\* the store cannot be read
SyncWithConfig ==
    /\ \E ok \in BOOLEAN :
         /\ allowedGroups' = IF ok THEN Range(configGroups)
                             ELSE allowedGroups
         /\ expectedGroups' = IF ok THEN Range(configGroups)
                              ELSE expectedGroups
         /\ Called(ok)
    /\ UNCHANGED << configGroups, triggerWords, webhookConfigs, messages,
                    pc, received, message, trig, webhook, context, response,
                    ret, calls, handled, currentWith >>
    /\ UNCHANGED << schedVars, moreVars >>

\* the map is changed first and then written to the store
StoreGroups(ok) ==
    /\ \E groups \in getAllowedGroupsLocked(allowedGroups') :
         configGroups' = IF ok THEN groups ELSE configGroups
    /\ Called(ok)

AddAllowedGroup ==
    /\ \E groupJID \in GroupNames, ok \in BOOLEAN :
         /\ allowedGroups' = allowedGroups \cup {groupJID}
         /\ expectedGroups' = expectedGroups \cup {groupJID}
         /\ StoreGroups(ok)
    /\ UNCHANGED << triggerWords, webhookConfigs, messages, pc, received,
                    message, trig, webhook, context, response, ret, calls,
                    handled, currentWith >>
    /\ UNCHANGED << schedVars, moreVars >>

RemoveAllowedGroup ==
    /\ \E groupJID \in GroupNames, ok \in BOOLEAN :
         /\ allowedGroups' = allowedGroups \ {groupJID}
         /\ expectedGroups' = expectedGroups \ {groupJID}
         /\ StoreGroups(ok)
    /\ UNCHANGED << triggerWords, webhookConfigs, messages, pc, received,
                    message, trig, webhook, context, response, ret, calls,
                    handled, currentWith >>
    /\ UNCHANGED << schedVars, moreVars >>

\* UpdateAllowedGroups: the map is rebuilt from the list and the list is
\* written to the store as it was given
UpdateAllowedGroups ==
    /\ \E groups \in GroupLists, ok \in BOOLEAN :
         /\ allowedGroups' = Range(groups)
         /\ expectedGroups' = Range(groups)
         /\ configGroups' = IF ok THEN groups ELSE configGroups
         /\ Called(ok)
    /\ UNCHANGED << triggerWords, webhookConfigs, messages, pc, received,
                    message, trig, webhook, context, response, ret, calls,
                    handled, currentWith >>
    /\ UNCHANGED << schedVars, moreVars >>

GroupsNext ==
    \/ SyncWithConfig
    \/ AddAllowedGroup
    \/ RemoveAllowedGroup
    \/ UpdateAllowedGroups

SpecGroups == GroupsInit /\ [][GroupsNext]_<<vars, schedVars>>

\* C30: after a sequential series of SyncWithConfig, AddAllowedGroup,
\* RemoveAllowedGroup and UpdateAllowedGroups calls that have all
\* succeeded, IsAllowed(g) is true exactly for the groups of the set that
\* the calls describe, GetAllowedGroups returns that set without
\* repetitions, and the list in the config store is that set.
C30_AllowListFollowsCalls ==
    groupCalls = "ok"
      => /\ \A g \in GroupNames : IsAllowed(g) <=> g \in expectedGroups
         /\ \A got \in GetAllowedGroups :
              /\ Range(got) = expectedGroups
              /\ Len(got) = Cardinality(expectedGroups)
         /\ Range(configGroups) = expectedGroups

\* all calls have succeeded, two groups are allowed and a third is not, and
\* GetAllowedGroups may return the two in either order
C30_Witness ==
    /\ groupCalls = "ok"
    /\ expectedGroups = {"g1", "g3"}
    /\ IsAllowed("g1") /\ IsAllowed("g3") /\ ~IsAllowed("g2")
    /\ Cardinality(GetAllowedGroups) = 2
    /\ configGroups = <<"g3", "g1">>

(***************************************************************************)
(* Properties of the last_run write of a firing                            *)
(***************************************************************************)
\* the execution records in the store that firing j has written
RecordsOf(j) == { e \in executions : e.ID = j }

\* C33 as stated: a firing whose last_run write failed still calls the
\* webhook and leaves exactly one execution record.
C33_Original ==
    \A j \in 1..Len(firings) :
      (firings[j].stage = "done" /\ firings[j].lastRun = "failed")
        => /\ firings[j].call # "none"
           /\ Cardinality(RecordsOf(j)) = 1

\* C33 amended: a firing writes last_run with the timestamp of its execution
\* before it calls the webhook, so that the schedule has a last_run no
\* earlier than that timestamp whether the call then fails or succeeds; a
\* firing whose write failed changes no row, can still take its next step,
\* calls the webhook, and writes one execution record with that timestamp,
\* which is in the store unless the store refused the insert.
C33_LastRunBeforeCall ==
    /\ [](\A j \in 1..Len(firings) :
            LET f == firings[j]
            IN /\ f.call # "none"
                    => f.lastRun # "none" /\ f.ExecutedAt # <<>>
               /\ f.lastRun = "stored"
                    => /\ schedules[f.schedule.ID].LastRun # <<>>
                       /\ schedules[f.schedule.ID].LastRun[1]
                            >= f.ExecutedAt[1]
               /\ (f.lastRun = "failed" /\ f.stage = "call") => CanStep(j)
               /\ f.stage = "done"
                    => /\ f.call # "none"
                       /\ Cardinality(RecordsOf(j))
                            = (IF f.logged THEN 1 ELSE 0)
                       /\ f.logged
                            => StoredRecord(j).ExecutedAt = f.ExecutedAt[1])
    /\ [][ \A j \in 1..Len(firings) :
             (firings[j].lastRun = "none" /\ firings'[j].lastRun # "none")
               => /\ firings'[j].stage = "call"
                  /\ firings'[j].call = "none"
                  /\ firings'[j].ExecutedAt = <<now>>
                  /\ firings'[j].lastRun = "stored"
                       => schedules'[firings[j].schedule.ID].LastRun = <<now>>
                  /\ firings'[j].lastRun = "failed"
                       => schedules' = schedules ]_schedVars

\* a firing whose last_run write failed, which called the webhook and is
\* recorded while its schedule has no last_run, and a firing whose call
\* failed after its last_run was written
C33_Witness ==
    /\ \E j \in Logged : /\ firings[j].lastRun = "failed"
                         /\ firings[j].call = "ok"
                         /\ schedules[firings[j].schedule.ID].LastRun = <<>>
    /\ \E j \in Logged :
         /\ firings[j].lastRun = "stored"
         /\ firings[j].call = "failed"
         /\ schedules[firings[j].schedule.ID].LastRun = firings[j].ExecutedAt

(***************************************************************************)
(* The retirement of a one-time schedule against the admin API: the store  *)
(* holds one one-time schedule that a pass has just fired, and the         *)
(* goroutine that disables it has not run yet.                             *)
(***************************************************************************)
RetireInit ==
    /\ ChatIdle
    /\ MoreIdle
    /\ now = Instants[1]
    /\ schedules = <<CreateRow(OnceSchedule)>>
    /\ executions = {}
    /\ running = TRUE
    /\ stopClosed = FALSE
    /\ crashed = FALSE
    /\ startups = 0
    /\ ticking = TRUE
    /\ nextTick = now + TickInterval
    /\ lastCheck = "listed"
    /\ firings = <<NewFiring(ScanSchedule(1), now)>>

RetireNext ==
    \/ UpdateSchedule
    \/ RetireOnce
    \/ ExecuteUpdateLastRun
    \/ ExecuteCallAndSend

SpecRetire == RetireInit /\ [][RetireNext]_<<vars, schedVars>>

\* C36: the write that retires a one-time schedule changes only the enabled
\* flag of its row: every other column is as it was in the store just before
\* the write, so what an admin update stored since the pass listed the
\* schedule is still there.
C36_RetireChangesOnlyEnabled ==
    [][ \A j \in 1..Len(firings) :
          (firings[j].retire = "pending" /\ firings'[j].retire = "stored")
            => schedules'[firings[j].schedule.ID]
                 = [schedules[firings[j].schedule.ID]
                      EXCEPT !.Enabled = FALSE] ]_schedVars

(***************************************************************************)
(* OllamaProvider.buildPrompt: the prompt as the sequence of its lines     *)
(***************************************************************************)
\* number of context messages buildPrompt renders
PromptContextLimit == 5

PromptLine(role, text) == [role |-> role, text |-> text]

SystemInstruction ==
    PromptLine("System",
               << "You are a helpful AI assistant in a WhatsApp group chat. Provide concise, friendly, and helpful responses. Keep your answers brief and to the point." >>)

\* the lines of request.Context from the one after start on
RECURSIVE ContextLines(_, _)
ContextLines(ctx, start) ==
    IF start >= Len(ctx) THEN <<>>
    ELSE <<PromptLine(IF ctx[start + 1].IsFromBot THEN "Assistant"
                      ELSE "User",
                      ctx[start + 1].Content)>>
           \o ContextLines(ctx, start + 1)

buildPrompt(request) ==
    LET ctx == request.Context
        start == IF Len(ctx) > PromptContextLimit
                 THEN Len(ctx) - PromptContextLimit ELSE 0
    IN <<SystemInstruction>>
         \o (IF Len(ctx) > 0
             THEN <<PromptLine("Header", <<"Recent conversation:">>)>>
                    \o ContextLines(ctx, start)
                    \o <<PromptLine("", <<>>)>>
             ELSE <<>>)
         \o <<PromptLine("User", request.Prompt),
              PromptLine("Assistant", <<>>)>>

\* the messages of the chat of the current message that were stored before it
PriorMessages ==
    LET msgs == messages[message.GroupJID]
        at == { i \in 1..Len(msgs) : msgs[i].ID = message.ID }
    IN IF at = {} THEN msgs
       ELSE SubSeq(msgs, 1, (CHOOSE i \in at : \A k \in at : i <= k) - 1)

\* C32: the prompt sent to the LLM is the one built from the stripped
\* content of the current message and the messages of the chat that came
\* before it: the system instruction, the last 5 of those at most, and the
\* current content as the final "User:" line; the current message is not
\* among the context lines, so its content is on one line only when no
\* earlier message had the same content.
C32_PromptFromPriorMessages ==
    \A k \in 1..Len(calls) :
      calls[k].op = "Generate"
        => LET prompt == buildPrompt(calls[k].args)
           IN /\ prompt = buildPrompt([Prompt |-> message.Content,
                                       Context |-> PriorMessages])
              /\ (\A i \in 1..Len(PriorMessages) :
                     PriorMessages[i].Content # message.Content)
                   => Cardinality({ i \in 1..Len(prompt) :
                                      prompt[i].text = message.Content }) = 1

(***************************************************************************)
(* The transport, whatsapp.Client, in front of ChatService: the chat side  *)
(* with no trigger words and no webhook rules, and the admin operation     *)
(* that replaces the allowed groups.                                       *)
(***************************************************************************)
TransportInit ==
    /\ ChatIdle
    /\ MoreIdle
    /\ SchedulerIdle

\* Client.eventHandler: a group message of a chat that is in the client's
\* own allowedGroups is handed to the handler, ProcessMessage; any other
\* is dropped.  The messages of this specification differ in their chat
\* only.
EventHandler ==
    /\ ProcessMessage
    /\ received'.GroupJID \in clientAllowed
    /\ received'.Content = <<"w">>
    /\ ~received'.IsReplyToBot

\* Handlers.UpdateAllowedGroups: the decoded list goes to
\* GroupService.UpdateAllowedGroups and to nothing else
HandlersUpdateAllowedGroups == UpdateAllowedGroups

TransportNext ==
    \/ HandlersUpdateAllowedGroups
    \/ EventHandler
    \/ MatchTrigger
    \/ SaveIncoming
    \/ GetContext
    \/ Generate
    \/ SendError
    \/ SendResponse
    \/ SaveBotMessage

SpecTransport == TransportInit /\ [][TransportNext]_<<vars, schedVars>>

\* C39: when every allow-list call so far has succeeded, the transport's
\* filter and GroupService.IsAllowed agree on every chat, so that a message
\* is handed to ProcessMessage exactly when ProcessMessage handles it.
C39_SingleSourcedAllowList ==
    groupCalls = "ok"
      => \A g \in GroupNames : (g \in clientAllowed) <=> IsAllowed(g)

(***************************************************************************)
(* GroupService under concurrent callers: each call changes the map under *)
(* the lock, releases the lock and then writes its list to the store       *)
(***************************************************************************)
\* calls that may be between their unlock and their store write at once
MaxPending == 2

ConcurrentInit ==
    /\ ChatIdle
    /\ MoreIdle
    /\ SchedulerIdle

\* the lock is released with the list of the call still to be written
Unlock(groups) ==
    /\ Len(pendingStores) < MaxPending
    /\ pendingStores' = Append(pendingStores, groups)
    /\ UNCHANGED << configGroups, groupCalls >>
    /\ UNCHANGED << triggerWords, webhookConfigs, messages, pc, received,
                    message, trig, webhook, context, response, ret, calls,
                    handled, currentWith >>
    /\ UNCHANGED << presenceVars, storeVars, clientAllowed, parked >>
    /\ UNCHANGED schedVars

\* AddAllowedGroup up to s.mu.Unlock()
AddLocked ==
    \E groupJID \in GroupNames :
      /\ allowedGroups' = allowedGroups \cup {groupJID}
      /\ expectedGroups' = expectedGroups \cup {groupJID}
      /\ \E groups \in getAllowedGroupsLocked(allowedGroups') :
           Unlock(groups)

\* RemoveAllowedGroup up to s.mu.Unlock()
RemoveLocked ==
    \E groupJID \in GroupNames :
      /\ allowedGroups' = allowedGroups \ {groupJID}
      /\ expectedGroups' = expectedGroups \ {groupJID}
      /\ \E groups \in getAllowedGroupsLocked(allowedGroups') :
           Unlock(groups)

\* UpdateAllowedGroups up to s.mu.Unlock()
UpdateLocked ==
    \E groups \in GroupLists :
      /\ allowedGroups' = Range(groups)
      /\ expectedGroups' = Range(groups)
      /\ Unlock(groups)

\* return s.configStore.UpdateAllowedGroups(groups) of any of the calls
\* that have released the lock
StoreUnlocked ==
    /\ \E i \in 1..Len(pendingStores), ok \in BOOLEAN :
         /\ configGroups' = IF ok THEN pendingStores[i] ELSE configGroups
         /\ Called(ok)
         /\ pendingStores' = SubSeq(pendingStores, 1, i - 1)
                               \o SubSeq(pendingStores, i + 1,
                                         Len(pendingStores))
    /\ UNCHANGED << allowedGroups, expectedGroups >>
    /\ UNCHANGED << triggerWords, webhookConfigs, messages, pc, received,
                    message, trig, webhook, context, response, ret, calls,
                    handled, currentWith >>
    /\ UNCHANGED << presenceVars, storeVars, clientAllowed, parked >>
    /\ UNCHANGED schedVars

ConcurrentNext ==
    \/ AddLocked
    \/ RemoveLocked
    \/ UpdateLocked
    \/ StoreUnlocked

SpecConcurrent == ConcurrentInit /\ [][ConcurrentNext]_<<vars, schedVars>>

\* C37: once every AddAllowedGroup, RemoveAllowedGroup and
\* UpdateAllowedGroups call has returned, and all of them successfully, the
\* list in the config store is the set of the in-memory allow-list.
C37_PersistedEqualsInMemory ==
    (pendingStores = <<>> /\ groupCalls = "ok")
      => Range(configGroups) = allowedGroups

(***************************************************************************)
(* FileConfigStore: Load, Save, UpdateAllowedGroups and GetAllowedGroups   *)
(* called from any goroutines.  The configuration is its allowed groups;   *)
(* configGroups is the list in the file.                                   *)
(***************************************************************************)
\* calls made to the store in one behaviour
MaxStoreCalls == 2

\* the lists a caller saves
StoreLists == { <<"g1">>, <<"g1", "g2">> }

StoreOps == {"Load", "Save", "UpdateAllowedGroups", "GetAllowedGroups"}

\* NewFileConfigStore: no configuration is loaded
StoreInit ==
    /\ ChatIdle
    /\ SchedulerIdle
    /\ MoreIdle

\* the store is left alone but for the variables named in each action
StoreFrame ==
    /\ UNCHANGED << allowedGroups, triggerWords, webhookConfigs, messages,
                    pc, received, message, trig, webhook, context, response,
                    ret, calls, handled, currentWith, expectedGroups,
                    groupCalls >>
    /\ UNCHANGED << presenceVars, clientAllowed, pendingStores, parked >>
    /\ UNCHANGED schedVars

\* a goroutine calls the store
StoreCall ==
    /\ Len(storeCalls) < MaxStoreCalls
    /\ \E op \in StoreOps, groups \in StoreLists :
         storeCalls' =
           Append(storeCalls,
                  [op |-> op, pc |-> "lock", result |-> "none",
                   groups |-> IF op \in {"Save", "UpdateAllowedGroups"}
                              THEN groups ELSE <<>>])
    /\ UNCHANGED << storeMu, storeConfig, configGroups >>
    /\ StoreFrame

\* the calls that hold s.mu for reading
Readers == { c \in storeMu : storeCalls[c].op = "GetAllowedGroups" }

\* sync.RWMutex: RLock waits for the writer, Lock waits for every holder,
\* the goroutine that asks included
CanLock(c) ==
    IF storeCalls[c].op = "GetAllowedGroups" /\ storeCalls[c].pc = "lock"
    THEN storeMu = Readers
    ELSE storeMu = {}

\* s.mu.Lock() or s.mu.RLock() at the head of a call, and the s.mu.Lock()
\* of the Save that UpdateAllowedGroups calls
Lock ==
    /\ \E c \in 1..Len(storeCalls) :
         /\ storeCalls[c].pc \in {"lock", "save"}
         /\ CanLock(c)
         /\ storeMu' = storeMu \cup {c}
         /\ storeCalls' =
              [storeCalls EXCEPT
                 ![c].pc = IF @ = "lock" THEN "locked" ELSE "saving"]
    /\ UNCHANGED << storeConfig, configGroups >>
    /\ StoreFrame

\* the call returns and its deferred Unlock runs
Return(c, result) ==
    /\ storeCalls' = [storeCalls EXCEPT ![c].pc = "returned",
                                        ![c].result = result]
    /\ storeMu' = storeMu \ {c}

\* Load: the file is read into s.config, unless it cannot be read, parsed
\* or validated
Load ==
    /\ \E c \in 1..Len(storeCalls), ok \in BOOLEAN :
         /\ storeCalls[c].op = "Load"
         /\ storeCalls[c].pc = "locked"
         /\ storeConfig' = IF ok THEN <<configGroups>> ELSE storeConfig
         /\ Return(c, IF ok THEN "nil" ELSE "error")
    /\ UNCHANGED configGroups
    /\ StoreFrame

\* Save, after its s.mu.Lock(): the configuration is written to the file
\* and becomes s.config, unless it is invalid or the file cannot be written
Save ==
    /\ \E c \in 1..Len(storeCalls), ok \in BOOLEAN :
         /\ \/ storeCalls[c].op = "Save" /\ storeCalls[c].pc = "locked"
            \/ storeCalls[c].pc = "saving"
         /\ configGroups' = IF ok THEN storeCalls[c].groups ELSE configGroups
         /\ storeConfig' = IF ok THEN <<storeCalls[c].groups>>
                           ELSE storeConfig
         /\ Return(c, IF ok THEN "nil" ELSE "error")
    /\ StoreFrame

\* FileConfigStore.UpdateAllowedGroups, after its s.mu.Lock(): "config not
\* loaded", or the groups are set in s.config and Save is called with the
\* lock held
StoreUpdateAllowedGroups ==
    /\ \E c \in 1..Len(storeCalls) :
         /\ storeCalls[c].op = "UpdateAllowedGroups"
         /\ storeCalls[c].pc = "locked"
         /\ IF storeConfig = <<>>
            THEN /\ Return(c, "error")
                 /\ UNCHANGED storeConfig
            ELSE /\ storeConfig' = <<storeCalls[c].groups>>
                 /\ storeCalls' = [storeCalls EXCEPT ![c].pc = "save"]
                 /\ UNCHANGED storeMu
    /\ UNCHANGED configGroups
    /\ StoreFrame

\* FileConfigStore.GetAllowedGroups, after its s.mu.RLock()
StoreGetAllowedGroups ==
    /\ \E c \in 1..Len(storeCalls) :
         /\ storeCalls[c].op = "GetAllowedGroups"
         /\ storeCalls[c].pc = "locked"
         /\ Return(c, IF storeConfig = <<>> THEN "error" ELSE "nil")
    /\ UNCHANGED << storeConfig, configGroups >>
    /\ StoreFrame

StoreNext ==
    \/ StoreCall
    \/ Lock
    \/ Load
    \/ Save
    \/ StoreUpdateAllowedGroups
    \/ StoreGetAllowedGroups

SpecStore == StoreInit /\ [][StoreNext]_<<vars, schedVars>>

\* C38: a call that waits for the lock of the store can take it, or the
\* lock is held by a call that is running and will release it on its
\* return.  So every UpdateAllowedGroups call on a loaded store returns,
\* and the Load, Save, GetAllowedGroups and UpdateAllowedGroups calls made
\* after it proceed.
C38_StoreCallsProceed ==
    \A c \in 1..Len(storeCalls) :
      storeCalls[c].pc \in {"lock", "save"}
        => \/ CanLock(c)
           \/ \E d \in storeMu : storeCalls[d].pc \in {"locked", "saving"}

(***************************************************************************)
(* Two ProcessMessage invocations that overlap: Client.eventHandler starts *)
(* a goroutine for each message.  The variables pc, received, message,     *)
(* trig, webhook, context, response, ret and calls are those of the        *)
(* goroutine that runs, parked holds those of the other one.               *)
(***************************************************************************)
\* triggered messages, one for the LLM and one that matches the webhook rule
OverlapContents == { <<"@", " ", "w">>, <<"@", " ", "h", " ", "w">> }

\* the invocation on message m right after its entry
Entered(m) ==
    [pc |-> "trigger", received |-> m, message |-> m,
     trig |-> << <<"@">> >>, webhook |-> NoWebhook, context |-> <<>>,
     response |-> NoResponse, ret |-> "none", calls |-> <<>>]

\* the invocation that runs
Running ==
    [pc |-> pc, received |-> received, message |-> message, trig |-> trig,
     webhook |-> webhook, context |-> context, response |-> response,
     ret |-> ret, calls |-> calls]

\* the configuration allows both chats and has one trigger word and one
\* webhook rule; two messages have arrived and both invocations have passed
\* the allow-list gate and read the trigger words
OverlapInit ==
    /\ allowedGroups = Groups
    /\ configGroups = <<"g1", "g2">>
    /\ expectedGroups = Groups
    /\ groupCalls = "ok"
    /\ clientAllowed = Groups
    /\ triggerWords = << <<"@">> >>
    /\ webhookConfigs = <<WebhookA>>
    /\ messages = [g \in Groups |-> <<>>]
    /\ handled = 2
    /\ currentWith = {}
    /\ \E g1 \in Groups, g2 \in Groups, c1 \in OverlapContents,
          c2 \in OverlapContents :
         LET m1 == [ID |-> <<"msg", 1>>, GroupJID |-> g1, Sender |-> "user",
                    Content |-> c1, Timestamp |-> 1, IsFromBot |-> FALSE,
                    IsReplyToBot |-> FALSE]
             m2 == [ID |-> <<"msg", 2>>, GroupJID |-> g2, Sender |-> "user2",
                    Content |-> c2, Timestamp |-> 2, IsFromBot |-> FALSE,
                    IsReplyToBot |-> FALSE]
         IN /\ pc = Entered(m1).pc
            /\ received = m1
            /\ message = m1
            /\ trig = Entered(m1).trig
            /\ webhook = NoWebhook
            /\ context = <<>>
            /\ response = NoResponse
            /\ ret = "none"
            /\ calls = <<>>
            /\ parked = <<Entered(m2)>>
    /\ subscriptions = <<>>
    /\ subscriptionQueue = <<>>
    /\ batch = <<>>
    /\ subscribing = <<>>
    /\ storeMu = {}
    /\ storeCalls = <<>>
    /\ storeConfig = <<>>
    /\ pendingStores = <<>>
    /\ SchedulerIdle

\* the scheduler lets the other goroutine run
Switch ==
    /\ parked # <<>>
    /\ parked[1].pc # "done"
    /\ parked' = <<Running>>
    /\ pc' = parked[1].pc
    /\ received' = parked[1].received
    /\ message' = parked[1].message
    /\ trig' = parked[1].trig
    /\ webhook' = parked[1].webhook
    /\ context' = parked[1].context
    /\ response' = parked[1].response
    /\ ret' = parked[1].ret
    /\ calls' = parked[1].calls
    /\ UNCHANGED << allowedGroups, triggerWords, webhookConfigs, messages,
                    handled, currentWith, groupVars >>
    /\ UNCHANGED << presenceVars, storeVars, clientAllowed, pendingStores >>
    /\ UNCHANGED schedVars

OverlapNext ==
    \/ Switch
    \/ MatchTrigger
    \/ FindWebhook
    \/ SaveIncoming
    \/ GetContext
    \/ Generate
    \/ SendError
    \/ SendResponse
    \/ SaveBotMessage
    \/ WebhookSaveIncoming
    \/ WebhookCall
    \/ WebhookSendError
    \/ WebhookSendResponse
    \/ WebhookSaveBotMessage

SpecOverlap == OverlapInit /\ [][OverlapNext]_<<vars, schedVars>>

\* both invocations
Invocations == <<Running>> \o parked

\* every call invocation f made to its collaborators succeeded
Succeeded(f) == \A i \in 1..Len(f.calls) : f.calls[i].ok

\* C34: two invocations on distinct triggered messages may overlap in any
\* way.  Each one that has come to its end with all its calls successful
\* has its inbound message in the store of its chat and has sent exactly
\* one reply, to its own chat, quoting the id and the sender of its own
\* message.
C34_OverlappingHandlers ==
    \A n \in 1..Len(Invocations) :
      LET f == Invocations[n]
          sends == SelectSeq(f.calls, IsSend)
      IN (f.pc = "done" /\ Succeeded(f))
           => /\ \E i \in 1..Len(messages[f.received.GroupJID]) :
                   LET m == messages[f.received.GroupJID][i]
                   IN /\ m.ID = f.received.ID
                      /\ m.Sender = f.received.Sender
                      /\ ~m.IsFromBot
              /\ Len(sends) = 1
              /\ sends[1].args.groupJID = f.received.GroupJID
              /\ sends[1].args.replyTo = f.received.ID
              /\ sends[1].args.quoted = f.received.Sender

\* both invocations are in the same chat and have come to their end with
\* all calls successful, and each read its context when both inbound
\* messages and no reply were in the store
C34_Witness ==
    /\ Len(Invocations) = 2
    /\ \A n \in 1..2 : /\ Invocations[n].pc = "done"
                        /\ Succeeded(Invocations[n])
                        /\ Len(Invocations[n].context) = 2
    /\ Invocations[1].received.GroupJID = Invocations[2].received.GroupJID
    /\ Invocations[1].received.ID # Invocations[2].received.ID

(***************************************************************************)
(* The presence subscription manager, SubscriptionManager.  Times are in   *)
(* seconds; 0 is the zero time.Time.                                       *)
(***************************************************************************)
Contacts == {"c1", "c2"}

\* priorities callers give: 1 = high, 3 = low
Priorities == {1, 3}

\* jids that are in the channel, in the batch or in subscribeBatch at once,
\* and instants the clock runs through
MaxQueued == 2
MaxPresenceInstants == 4

QueueCapacity == 1000
BatchSize == 20
OneMinute == 60
OneHour == 3600
ResubscribeAfter == 86400
HealthCheckPriority == 2

\* the start, one and three minutes later, and 25 and 49 hours later
PresenceInstants ==
    << Instants[1], Instants[1] + OneMinute, Instants[1] + 3 * OneMinute,
       Instants[1] + 25 * OneHour, Instants[1] + 49 * OneHour >>

\* NewSubscriptionManager and Start: nothing is queued
PresenceInit ==
    /\ ChatIdle
    /\ subscriptions = [jid \in Contacts |-> <<>>]
    /\ subscriptionQueue = <<>>
    /\ batch = <<>>
    /\ subscribing = <<>>
    /\ storeMu = {}
    /\ storeCalls = <<>>
    /\ storeConfig = <<>>
    /\ clientAllowed = ConfigAllowedGroups
    /\ pendingStores = <<>>
    /\ parked = <<>>
    /\ now = PresenceInstants[1]
    /\ schedules = <<>>
    /\ executions = {}
    /\ running = FALSE
    /\ stopClosed = FALSE
    /\ crashed = FALSE
    /\ startups = 0
    /\ ticking = FALSE
    /\ nextTick = 0
    /\ lastCheck = "none"
    /\ firings = <<>>

\* nothing but the manager and, where named, the clock changes
PresenceFrame ==
    /\ UNCHANGED << allowedGroups, triggerWords, webhookConfigs, messages,
                    pc, received, message, trig, webhook, context, response,
                    ret, calls, handled, currentWith, groupVars >>
    /\ UNCHANGED << storeVars, clientAllowed, pendingStores, parked >>
    /\ UNCHANGED << schedules, executions, running, stopClosed, crashed,
                    startups, ticking, nextTick, lastCheck, firings >>

\* the jids that are in the channel, in the batch or still to be gone
\* through by subscribeBatch
Waiting == subscriptionQueue \o batch \o subscribing

\* QueueSubscription on the map subs and the channel queue at time t: a
\* contact subscribed within the last hour is skipped; otherwise its entry
\* is replaced by a new one and its jid is sent to the channel, or dropped
\* when the channel is full
Queued(subs, queue, jid, priority, t) ==
    IF subs[jid] # <<>> /\ t - subs[jid][1].SubscribedAt < OneHour
    THEN [subscriptions |-> subs, queue |-> queue]
    ELSE [subscriptions |->
            [subs EXCEPT ![jid] = << [SubscribedAt |-> 0, LastEventAt |-> t,
                                     Priority |-> priority, FailCount |-> 0,
                                     NextRetry |-> 0] >>],
          queue |-> IF Len(queue) < QueueCapacity THEN Append(queue, jid)
                    ELSE queue]

QueueSubscription ==
    /\ Len(Waiting) < MaxQueued
    /\ \E jid \in Contacts, priority \in Priorities :
         LET q == Queued(subscriptions, subscriptionQueue, jid, priority, now)
         IN /\ subscriptions' = q.subscriptions
            /\ subscriptionQueue' = q.queue
    /\ UNCHANGED << batch, subscribing, now >>
    /\ PresenceFrame

\* processBatchedSubscriptions: a jid is received from the channel; a full
\* batch is handed to subscribeBatch
Receive ==
    /\ subscribing = <<>>
    /\ subscriptionQueue # <<>>
    /\ subscriptionQueue' = Tail(subscriptionQueue)
    /\ LET received1 == Append(batch, Head(subscriptionQueue))
       IN IF Len(received1) >= BatchSize
          THEN subscribing' = received1 /\ batch' = <<>>
          ELSE batch' = received1 /\ UNCHANGED subscribing
    /\ UNCHANGED << subscriptions, now >>
    /\ PresenceFrame

\* processBatchedSubscriptions: the ticker fires and the partial batch is
\* handed to subscribeBatch
BatchTick ==
    /\ subscribing = <<>>
    /\ batch # <<>>
    /\ subscribing' = batch
    /\ batch' = <<>>
    /\ UNCHANGED << subscriptions, subscriptionQueue, now >>
    /\ PresenceFrame

\* 2^n minutes, an hour at most
RECURSIVE Pow2(_)
Pow2(n) == IF n = 0 THEN 1 ELSE 2 * Pow2(n - 1)

Backoff(failCount) ==
    IF Pow2(failCount) * OneMinute > OneHour THEN OneHour
    ELSE Pow2(failCount) * OneMinute

\* subscribeBatch: the next jid of the batch.  It is skipped while its
\* backoff runs; else subscribeFn is called, and a failure sets the next
\* retry time and nothing else
Subscribe ==
    /\ subscribing # <<>>
    /\ subscribing' = Tail(subscribing)
    /\ LET jid == Head(subscribing)
           info == subscriptions[jid][1]
       IN IF now < info.NextRetry
          THEN UNCHANGED subscriptions
          ELSE \E ok \in BOOLEAN :
                 subscriptions' =
                   [subscriptions EXCEPT
                      ![jid] =
                        IF ok
                        THEN << [info EXCEPT !.SubscribedAt = now,
                                             !.FailCount = 0,
                                             !.NextRetry = 0] >>
                        ELSE << [info EXCEPT
                                   !.FailCount = @ + 1,
                                   !.NextRetry =
                                      now + Backoff(info.FailCount + 1)] >>]
    /\ UNCHANGED << subscriptionQueue, batch, now >>
    /\ PresenceFrame

\* RecordEvent: an event of a known contact has arrived
RecordEvent ==
    /\ \E jid \in Contacts :
         /\ subscriptions[jid] # <<>>
         /\ subscriptions' =
              [subscriptions EXCEPT ![jid] = << [@[1] EXCEPT
                                                  !.LastEventAt = now] >>]
    /\ UNCHANGED << subscriptionQueue, batch, subscribing, now >>
    /\ PresenceFrame

\* the contacts performHealthCheck finds stale
Stale ==
    { jid \in Contacts :
        /\ subscriptions[jid] # <<>>
        /\ now - subscriptions[jid][1].LastEventAt > ResubscribeAfter
        /\ now - subscriptions[jid][1].SubscribedAt > ResubscribeAfter }

\* QueueSubscription for each jid of the list, in its order
RECURSIVE QueuedAll(_, _, _, _)
QueuedAll(subs, queue, jids, t) ==
    IF jids = <<>> THEN [subscriptions |-> subs, queue |-> queue]
    ELSE LET q == Queued(subs, queue, Head(jids), HealthCheckPriority, t)
         IN QueuedAll(q.subscriptions, q.queue, Tail(jids), t)

\* performHealthCheck on a tick of the hourly ticker: the stale contacts
\* are queued again, in the order of the iteration over the map
HealthCheck ==
    /\ Len(Waiting) + Cardinality(Stale) <= MaxQueued
    /\ \E jids \in getAllowedGroupsLocked(Stale) :
         LET q == QueuedAll(subscriptions, subscriptionQueue, jids, now)
         IN /\ subscriptions' = q.subscriptions
            /\ subscriptionQueue' = q.queue
    /\ UNCHANGED << batch, subscribing, now >>
    /\ PresenceFrame

\* time passes up to the next instant
PresenceAdvance ==
    /\ \E i \in 1..(Len(PresenceInstants) - 1) :
         /\ i < MaxPresenceInstants
         /\ now = PresenceInstants[i]
         /\ now' = PresenceInstants[i + 1]
    /\ UNCHANGED presenceVars
    /\ PresenceFrame

PresenceNext ==
    \/ QueueSubscription
    \/ Receive
    \/ BatchTick
    \/ Subscribe
    \/ RecordEvent
    \/ HealthCheck
    \/ PresenceAdvance

SpecPresence == PresenceInit /\ [][PresenceNext]_<<vars, schedVars>>

\* the contacts that wait to be subscribed and are not held back by their
\* backoff, the one at the head of subscribeBatch apart
WaitingBehind ==
    { Waiting[i] : i \in 1..Len(Waiting) }
      \ ({ Head(subscribing) }
           \cup { jid \in Contacts : /\ subscriptions[jid] # <<>>
                                     /\ now < subscriptions[jid][1].NextRetry })

\* C31: contacts of a higher priority are subscribed first: when a contact
\* is subscribed, no contact of a higher priority (a smaller number) is
\* waiting in the channel or in a batch.
C31_HigherPriorityFirst ==
    [][ (/\ subscribing # <<>>
         /\ subscribing' = Tail(subscribing)
         /\ subscriptions'[Head(subscribing)]
              # subscriptions[Head(subscribing)]
         /\ subscriptions'[Head(subscribing)][1].SubscribedAt = now)
          => \A jid \in WaitingBehind :
               subscriptions[jid][1].Priority
                 >= subscriptions[Head(subscribing)][1].Priority
      ]_presenceVars

\* C40: a contact whose last attempt failed is attempted again once its
\* backoff has run out: from its retry time on it is in the channel or in
\* a batch, so that it is not left unsubscribed.
C40_FailedContactRetried ==
    \A jid \in Contacts :
      (/\ subscriptions[jid] # <<>>
       /\ subscriptions[jid][1].FailCount > 0
       /\ now > subscriptions[jid][1].NextRetry)
        => \E i \in 1..Len(Waiting) : Waiting[i] = jid

====
